---- MODULE Spec2Model ----
(***************************************************************************)
(* A model of the DNS wire codec (msg.go): domain name packing with        *)
(* compression, the field walkers PackStruct/UnpackStruct, the resource    *)
(* record codec PackRR/UnpackRR and the message codec Msg.Pack,            *)
(* Msg.Unpack and Msg.Len; of Dedup (sanitize.go); and of                  *)
(* ResponseRatelimit (ratelimit.go).                                       *)
(*                                                                         *)
(* Text is a sequence of octets (a Go string), a buffer is a length and    *)
(* the octets written so far (Go's make() zeroes the rest), offsets are    *)
(* 0-based as in the source.  An index out of range or a reversed slice    *)
(* is the outcome "panic".                                                 *)
(***************************************************************************)
EXTENDS Integers, Sequences, FiniteSets, TLC

VARIABLES
    nbuf,    \* PackDomainName scenario: the shared buffer msg
    noff,    \* ... the current offset
    ncomp,   \* ... the shared compression map
    nlog,    \* ... one entry per PackDomainName call made so far
    ust,     \* UnpackDomainName run: its input and loop variables
    m,       \* message scenario: the Msg being sent
    wire,    \* ... the octets on the wire
    perr,    \* ... what Msg.Pack returned besides the octets: the error, msg == nil
    dns,     \* ... the receiving Msg
    ures,    \* ... what Msg.Unpack returned
    pc,      \* ... the position in the scenario
    rrst,    \* record scenario: PackRR / UnpackRR of one record
    dd,      \* Dedup scenario: the records, the caller's map, the calls made
    cc,      \* concurrent calls: each Pack or Unpack call's own variables
    rl       \* ResponseRatelimit: buckets, channel, the counting goroutine

vars == <<nbuf, noff, ncomp, nlog, ust, m, wire, perr, dns, ures, pc, rrst, dd, cc, rl>>

----------------------------------------------------------------------------
(* Octets and characters *)

Dot == 46
Bsl == 92
Quote == 39

maxCompressionOffset == 16384

NoErr == [err |-> "nil", isnil |-> FALSE]

Pow2(n) == 2 ^ n

Bit(x, k) == (x \div Pow2(k)) % 2

RECURSIVE BitOrN(_, _, _)
BitOrN(a, b, n) ==
    IF n = 0 THEN 0
    ELSE (IF (a % 2) + (b % 2) > 0 THEN 1 ELSE 0) + 2 * BitOrN(a \div 2, b \div 2, n - 1)

RECURSIVE BitXorN(_, _, _)
BitXorN(a, b, n) ==
    IF n = 0 THEN 0
    ELSE (((a % 2) + (b % 2)) % 2) + 2 * BitXorN(a \div 2, b \div 2, n - 1)

Or16(a, b) == BitOrN(a % 65536, b % 65536, 16)

packUint16(i) == <<(i \div 256) % 256, i % 256>>

----------------------------------------------------------------------------
(* Buffers: msg []byte *)

MakeBuf(n) == [len |-> n, data |-> <<>>]

Rd(msg, i) == IF i \in DOMAIN msg.data THEN msg.data[i] ELSE 0

InBuf(msg, i) == i >= 0 /\ i < msg.len

Wr(msg, i, b) == [msg EXCEPT !.data = (i :> b) @@ msg.data]

WrSeq(msg, off, seq) ==
    [msg EXCEPT !.data =
        [k \in (DOMAIN msg.data) \cup (off .. off + Len(seq) - 1) |->
            IF k >= off /\ k < off + Len(seq) THEN seq[k - off + 1] ELSE msg.data[k]]]

Bytes(msg, a, b) == [k \in 1 .. (b - a) |-> Rd(msg, a + k - 1)]

FromSeq(seq) == [len |-> Len(seq), data |-> [k \in 0 .. Len(seq) - 1 |-> seq[k + 1]]]

----------------------------------------------------------------------------
(* PackDomainName *)

NilMap == [nil |-> TRUE, tab |-> <<>>]
MakeMap == [nil |-> FALSE, tab |-> <<>>]

ShiftLeft(bs, i) ==
    [k \in 1 .. Len(bs) |-> IF k >= i + 1 /\ k < Len(bs) THEN bs[k + 1] ELSE bs[k]]

PDNLabel(st, lens, compress) ==
    LET i == st.i
        n == st.i - st.begin
        offset == st.off
        key == SubSeq(st.bs, st.begin + 1, lens)
    IN  IF n >= 64 THEN [st EXCEPT !.err = "ErrShortBuf"]
        ELSE IF st.off + 1 > st.msg.len THEN [st EXCEPT !.err = "ErrShortBuf"]
        ELSE IF st.off + 1 + n > st.msg.len
             THEN [st EXCEPT !.err = "ErrShortBuf",
                             !.msg = WrSeq(Wr(st.msg, st.off, n), st.off + 1,
                                           SubSeq(st.bs, st.begin + 1,
                                                  st.begin + (st.msg.len - st.off - 1)))]
        ELSE LET msg2 == WrSeq(Wr(st.msg, st.off, n), st.off + 1,
                               SubSeq(st.bs, st.begin + 1, i))
                 st2 == [st EXCEPT !.msg = msg2, !.off = st.off + 1 + n]
             IN  IF ~st.comp.nil /\ key # <<Dot, Quote>>
                 THEN IF key \notin DOMAIN st.comp.tab
                      THEN [st2 EXCEPT
                               !.comp = IF offset < maxCompressionOffset
                                        THEN [st.comp EXCEPT !.tab = (key :> offset) @@ st.comp.tab]
                                        ELSE st.comp,
                               !.begin = i + 1, !.i = i + 1]
                      ELSE IF st.pointer = -1 /\ compress
                           THEN [st2 EXCEPT !.pointer = st.comp.tab[key],
                                            !.nameoffset = offset, !.brk = TRUE]
                           ELSE [st2 EXCEPT !.begin = i + 1, !.i = i + 1]
                 ELSE [st2 EXCEPT !.begin = i + 1, !.i = i + 1]

RECURSIVE PDNLoop(_, _, _)
PDNLoop(st, lens, compress) ==
    IF st.err # "nil" \/ st.brk \/ st.i >= st.ls THEN st
    ELSE IF st.bs[st.i + 1] = Bsl
         THEN PDNLoop([st EXCEPT !.bs = ShiftLeft(st.bs, st.i), !.ls = st.ls - 1,
                                 !.i = st.i + 1], lens, compress)
    ELSE IF st.bs[st.i + 1] = Dot
         THEN PDNLoop(PDNLabel(st, lens, compress), lens, compress)
    ELSE PDNLoop([st EXCEPT !.i = st.i + 1], lens, compress)

PDNEnd(st) ==
    IF st.err # "nil"
    THEN [off |-> st.msg.len, err |-> st.err, msg |-> st.msg, comp |-> st.comp]
    ELSE IF st.bs = <<Dot>>
    THEN [off |-> st.off, err |-> "nil", msg |-> st.msg, comp |-> st.comp]
    ELSE IF st.pointer # -1
    THEN IF ~InBuf(st.msg, st.nameoffset + 1)
         THEN [off |-> st.off, err |-> "panic", msg |-> st.msg, comp |-> st.comp]
         ELSE [off |-> st.nameoffset + 2, err |-> "nil",
               msg |-> WrSeq(st.msg, st.nameoffset,
                             packUint16(BitXorN(st.pointer, 49152, 16))),
               comp |-> st.comp]
    ELSE IF ~InBuf(st.msg, st.off)
         THEN [off |-> st.off, err |-> "panic", msg |-> st.msg, comp |-> st.comp]
         ELSE [off |-> st.off + 1, err |-> "nil", msg |-> Wr(st.msg, st.off, 0),
               comp |-> st.comp]

PackDomainName(s, msg, off, compression, compress) ==
    IF Len(s) = 0 \/ s[Len(s)] # Dot
    THEN [off |-> msg.len, err |-> "ErrFqdn", msg |-> msg, comp |-> compression]
    ELSE PDNEnd(PDNLoop([i |-> 0, ls |-> Len(s), bs |-> s, begin |-> 0, off |-> off,
                         msg |-> msg, comp |-> compression, pointer |-> -1,
                         nameoffset |-> -1, err |-> "nil", brk |-> FALSE],
                        Len(s), compress))

----------------------------------------------------------------------------
(* UnpackDomainName: one iteration of its loop is UDNStep *)

maxPointers == 10

UDNInit(off) ==
    [s |-> <<>>, off |-> off, ptr |-> 0, off1 |-> 0, done |-> FALSE, err |-> "nil"]

UDNReturn(st, s, off1, err) ==
    [st EXCEPT !.s = s, !.off1 = off1, !.err = err, !.done = TRUE]

RECURSIVE EscapeLabel(_)
EscapeLabel(bytes) ==
    IF bytes = <<>> THEN <<>>
    ELSE (IF Head(bytes) = Dot THEN <<Bsl, Dot>> ELSE <<Head(bytes)>>)
         \o EscapeLabel(Tail(bytes))

UDNStepWith(msg, st, limit) ==
    IF st.off >= msg.len THEN UDNReturn(st, <<>>, msg.len, "ErrShortBuf")
    ELSE LET c == Rd(msg, st.off)
             off == st.off + 1
         IN  IF c \div 64 = 0
             THEN IF c = 0
                  THEN IF st.s = <<>>
                       THEN UDNReturn(st, <<Dot>>, off, "nil")
                       ELSE UDNReturn(st, st.s, IF st.ptr = 0 THEN off ELSE st.off1, "nil")
                  ELSE IF off + c > msg.len
                       THEN UDNReturn(st, <<>>, msg.len, "ErrShortBuf")
                       ELSE [st EXCEPT !.s = st.s \o EscapeLabel(Bytes(msg, off, off + c))
                                                  \o <<Dot>>,
                                       !.off = off + c]
             ELSE IF c \div 64 = 3
             THEN IF off >= msg.len
                  THEN UDNReturn(st, <<>>, msg.len, "ErrShortBuf")
                  ELSE LET c1 == Rd(msg, off)
                           o1 == IF st.ptr = 0 THEN off + 1 ELSE st.off1
                       IN  IF st.ptr + 1 > limit
                           THEN [UDNReturn(st, <<>>, msg.len, "ErrLoop")
                                     EXCEPT !.ptr = st.ptr + 1]
                           ELSE [st EXCEPT !.off = (c - 192) * 256 + c1,
                                           !.ptr = st.ptr + 1, !.off1 = o1]
             ELSE UDNReturn(st, <<>>, msg.len, "ErrBit")

UDNStepSlack(msg, st) == UDNStepWith(msg, st, maxPointers + 2)

UDNStep(msg, st) == UDNStepWith(msg, st, maxPointers)

RECURSIVE UDNRun(_, _)
UDNRun(msg, st) == IF st.done THEN st ELSE UDNRun(msg, UDNStep(msg, st))

UDNResult(r) == [s |-> r.s, off |-> r.off1, err |-> r.err]

UnpackDomainName(msg, off) == UDNResult(UDNRun(msg, UDNInit(off)))

----------------------------------------------------------------------------
(* UnpackDomainName scenario: the loop run step by step on every small     *)
(* buffer and start offset                                                 *)

MaxWire == 4

WireBytes == {0, 1, 64, 97, 192}

RECURSIVE SeqsUpTo(_, _)
SeqsUpTo(S, n) ==
    IF n = 0 THEN {<<>>}
    ELSE LET shorter == SeqsUpTo(S, n - 1)
         IN  shorter \cup {Append(q, x) : q \in {r \in shorter : Len(r) = n - 1}, x \in S}

InitUnpackName ==
    /\ nbuf = MakeBuf(0) /\ noff = 0 /\ ncomp = MakeMap /\ nlog = <<>>
    /\ \E b \in SeqsUpTo(WireBytes, MaxWire) : \E o \in 0 .. Len(b) :
          ust = [on |-> TRUE, msg |-> FromSeq(b), start |-> o, st |-> UDNInit(o)]
    /\ m = [on |-> FALSE] /\ wire = <<>> /\ perr = NoErr
    /\ dns = [on |-> FALSE] /\ ures = [on |-> FALSE] /\ pc = "idle"
    /\ rrst = [on |-> FALSE]
    /\ dd = [on |-> FALSE]
    /\ cc = [on |-> FALSE] /\ rl = [on |-> FALSE]

UnpackNameStep ==
    /\ ust.on /\ ~ust.st.done
    /\ ust' = [ust EXCEPT !.st = UDNStep(ust.msg, ust.st)]
    /\ UNCHANGED <<nbuf, noff, ncomp, nlog, m, wire, perr, dns, ures, pc, rrst, dd, cc, rl>>

NextUnpackName == UnpackNameStep

SpecUnpackName == InitUnpackName /\ [][NextUnpackName]_vars /\ WF_vars(UnpackNameStep)

\* The pointers reached from position p form a cycle: following labels and
\* pointers from p leads to a pointer already taken.
RECURSIVE PointerCycle(_, _, _)
PointerCycle(msg, p, taken) ==
    IF p >= msg.len THEN FALSE
    ELSE LET c == Rd(msg, p)
         IN  IF c = 0 THEN FALSE
             ELSE IF c \div 64 = 0
             THEN p + 1 + c <= msg.len /\ PointerCycle(msg, p + 1 + c, taken)
             ELSE IF c \div 64 = 3
             THEN /\ p + 1 < msg.len
                  /\ \/ p \in taken
                     \/ PointerCycle(msg, (c - 192) * 256 + Rd(msg, p + 1), taken \cup {p})
             ELSE FALSE

\* C4: UnpackDomainName terminates on every buffer and start offset, never
\* takes more than 10 pointers (the 11th ends it with ErrLoop), and a name
\* whose pointers form a cycle, a pointer to itself included, ends in ErrLoop.
C4_Terminates ==
    /\ <>(ust.st.done)
    /\ [](/\ ust.st.ptr <= maxPointers + 1
          /\ ust.st.ptr = maxPointers + 1 => ust.st.done /\ ust.st.err = "ErrLoop")
    /\ [](ust.st.done /\ PointerCycle(ust.msg, ust.start, {}) => ust.st.err = "ErrLoop")

C4_Witness ==
    /\ ust.on /\ ust.st.done /\ ust.st.err = "ErrLoop"
    /\ ust.msg = FromSeq(<<192, 0>>) /\ ust.start = 0

----------------------------------------------------------------------------
(* Hexadecimal text (encoding/hex) *)

HexVal(c) ==
    IF c >= 48 /\ c <= 57 THEN c - 48
    ELSE IF c >= 97 /\ c <= 102 THEN c - 87
    ELSE IF c >= 65 /\ c <= 70 THEN c - 55
    ELSE -1

HexDigit(n) == IF n < 10 THEN 48 + n ELSE 87 + n

HexDecodeString(s) ==
    IF Len(s) % 2 = 1 \/ \E k \in 1 .. Len(s) : HexVal(s[k]) = -1
    THEN [err |-> "ErrHex", b |-> <<>>]
    ELSE [err |-> "nil",
          b |-> [k \in 1 .. Len(s) \div 2 |-> 16 * HexVal(s[2 * k - 1]) + HexVal(s[2 * k])]]

HexEncodeToString(b) ==
    [k \in 1 .. 2 * Len(b) |->
        IF k % 2 = 1 THEN HexDigit(b[(k + 1) \div 2] \div 16)
        ELSE HexDigit(b[k \div 2] % 16)]

----------------------------------------------------------------------------
(* The structs and the fields Walk hands to the packers, in order *)

TypeA == 1
TypeNS == 2
TypeWKS == 11
TypeOPT == 41
TypeNSEC == 47
EDNS0NSID == 3
EDNS0SUBNET == 8
ClassINET == 1

v4InV6Prefix == <<0, 0, 0, 0, 0, 0, 0, 0, 0, 0, 255, 255>>

IPv4(a, b, c, d) == v4InV6Prefix \o <<a, b, c, d>>

F(name, typ, tag) == [name |-> name, typ |-> typ, tag |-> tag]

HeaderFields ==
    <<F("Id", "uint16", ""), F("Bits", "uint16", ""), F("Qdcount", "uint16", ""),
      F("Ancount", "uint16", ""), F("Nscount", "uint16", ""), F("Arcount", "uint16", "")>>

QuestionFields ==
    <<F("Name", "string", "cdomain"), F("Qtype", "uint16", ""), F("Qclass", "uint16", "")>>

RR_HeaderFields ==
    <<F("Name", "string", "cdomain"), F("Rrtype", "uint16", ""), F("Class", "uint16", ""),
      F("Ttl", "uint32", ""), F("Rdlength", "uint16", "")>>

Walk(any) ==
    CASE any.kind = "Header" -> HeaderFields
      [] any.kind = "Question" -> QuestionFields
      [] any.kind = "RR_Header" -> RR_HeaderFields
      [] any.kind = "RR_A" -> Append(RR_HeaderFields, F("A", "ip", "a"))
      [] any.kind = "RR_NS" -> Append(RR_HeaderFields, F("Ns", "string", "cdomain"))
      [] any.kind = "RR_RFC3597" -> Append(RR_HeaderFields, F("Rdata", "string", "hex"))
      [] any.kind = "MAGIC" -> Append(RR_HeaderFields, F("Code", "string", "hex"))
      [] any.kind = "RR_OPT" -> Append(RR_HeaderFields, F("Option", "edns0s", "opt"))
      [] any.kind = "RR_NSEC" ->
            RR_HeaderFields \o <<F("NextDomain", "string", "domain"),
                                 F("TypeBitMap", "uint16s", "nsec")>>
      [] any.kind = "RR_WKS" ->
            RR_HeaderFields \o <<F("Address", "ip", "a"), F("Protocol", "uint8", ""),
                                 F("BitMap", "uint16s", "wks")>>

ZeroHdr == [Name |-> <<>>, Rrtype |-> 0, Class |-> 0, Ttl |-> 0, Rdlength |-> 0]

New(kind) ==
    CASE kind = "Header" ->
            [kind |-> kind, Id |-> 0, Bits |-> 0, Qdcount |-> 0, Ancount |-> 0,
             Nscount |-> 0, Arcount |-> 0]
      [] kind = "Question" -> [kind |-> kind, Name |-> <<>>, Qtype |-> 0, Qclass |-> 0]
      [] kind = "RR_Header" -> [kind |-> kind] @@ ZeroHdr
      [] kind = "RR_A" -> [kind |-> kind, A |-> <<>>] @@ ZeroHdr
      [] kind = "RR_NS" -> [kind |-> kind, Ns |-> <<>>] @@ ZeroHdr
      [] kind = "RR_RFC3597" -> [kind |-> kind, Rdata |-> <<>>] @@ ZeroHdr
      [] kind = "MAGIC" -> [kind |-> kind, Code |-> <<>>] @@ ZeroHdr
      [] kind = "RR_OPT" -> [kind |-> kind, Option |-> <<>>] @@ ZeroHdr
      [] kind = "RR_NSEC" ->
            [kind |-> kind, NextDomain |-> <<>>, TypeBitMap |-> <<>>] @@ ZeroHdr
      [] kind = "RR_WKS" ->
            [kind |-> kind, Address |-> <<>>, Protocol |-> 0, BitMap |-> <<>>] @@ ZeroHdr

NilRR == [kind |-> "nil"]

\* rr_mk: the constructors registered by type code
rr_mk ==
    (TypeA :> "RR_A") @@ (TypeNS :> "RR_NS") @@ (TypeNSEC :> "RR_NSEC")
        @@ (TypeOPT :> "RR_OPT") @@ (TypeWKS :> "RR_WKS")

\* The private type code of the tests
typeMAGIC == 3841

\* The registry UnpackRR consults: rr_mk, and the constructor of MAGIC once
\* the test has registered it
TypeToRR ==
    IF rrst.on /\ rrst.registered THEN (typeMAGIC :> "MAGIC") @@ rr_mk ELSE rr_mk

HasHeader(any) == any.kind \notin {"Header", "Question", "nil"}

rdlengthHelper(any) == IF ~HasHeader(any) THEN 0 ELSE any.Rdlength

----------------------------------------------------------------------------
(* PackStruct *)

PSt(msg, off, comp, err) == [msg |-> msg, off |-> off, comp |-> comp, err |-> err]

PackFixed(st, n, bytes) ==
    IF st.off + n > st.msg.len THEN [st EXCEPT !.err = "ErrShortBuf"]
    ELSE [st EXCEPT !.msg = WrSeq(st.msg, st.off, bytes), !.off = st.off + n]

PackIPa(st, ip) ==
    IF Len(ip) = 16 THEN PackFixed(st, 4, SubSeq(ip, 13, 16))
    ELSE IF Len(ip) = 4 THEN PackFixed(st, 4, ip)
    ELSE IF Len(ip) = 0 THEN st
    ELSE [st EXCEPT !.err = "ErrShortBuf"]

PackHex(st, s) ==
    LET h == HexDecodeString(s)
        n == Len(s) \div 2
    IN  IF h.err # "nil" THEN [st EXCEPT !.err = h.err]
        ELSE IF st.off + n > st.msg.len THEN [st EXCEPT !.err = "ErrShortBuf"]
        ELSE [st EXCEPT !.msg = WrSeq(st.msg, st.off, h.b), !.off = st.off + n]

\* The "wks" loop over the service codes fv[j..]: the octet for a code is
\* msg[code / 8], counted from the start of the buffer, and is assigned, not
\* or-ed; bitmapbyte is the octet index of the code before fv[j]
RECURSIVE PackWksLoop(_, _, _, _)
PackWksLoop(st, fv, j, bitmapbyte) ==
    IF j > Len(fv) THEN [st EXCEPT !.off = st.off + bitmapbyte]
    ELSE IF (fv[j] % 65536) \div 8 > st.msg.len THEN [st EXCEPT !.err = "ErrShortBuf"]
    ELSE IF (fv[j] % 65536) \div 8 = st.msg.len THEN [st EXCEPT !.err = "panic"]
    ELSE PackWksLoop([st EXCEPT !.msg = Wr(st.msg, (fv[j] % 65536) \div 8,
                                           Pow2(7 - (fv[j] % 8)))],
                     fv, j + 1, (fv[j] % 65536) \div 8)

PackWks(st, fv) == IF Len(fv) = 0 THEN st ELSE PackWksLoop(st, fv, 1, 0)

\* The "nsec" loop over the type codes fv[j..]: window and length octets are
\* rewritten for every code, the bit is or-ed into the window's octet
RECURSIVE PackNsecLoop(_, _, _, _, _)
PackNsecLoop(st, fv, j, lastwindow, length) ==
    IF j > Len(fv)
    THEN IF st.off + 3 + length > st.msg.len THEN [st EXCEPT !.err = "ErrShortBuf"]
         ELSE [st EXCEPT !.off = st.off + 3 + length]
    ELSE LET window == fv[j] \div 256
             off == IF lastwindow # window THEN st.off + length + 3 ELSE st.off
             len2 == (fv[j] % 256) \div 8
             at == off + 2 + len2
         IN  IF off > st.msg.len \/ at > st.msg.len THEN [st EXCEPT !.err = "ErrShortBuf"]
             ELSE IF at = st.msg.len THEN [st EXCEPT !.err = "panic"]
             ELSE PackNsecLoop(
                      [st EXCEPT !.off = off,
                                 !.msg = Wr(Wr(Wr(st.msg, off, window), off + 1, len2 + 1), at,
                                            BitOrN(Rd(st.msg, at), Pow2(7 - (fv[j] % 8)), 8))],
                      fv, j + 1, window, len2)

PackNsec(st, fv) ==
    IF Len(fv) = 0 THEN st
    ELSE IF st.off + 2 > st.msg.len THEN [st EXCEPT !.err = "ErrShortBuf"]
    ELSE PackNsecLoop(st, fv, 1, 0, 0)

\* The []EDNS0 loop over the options fv[j..]: an option is its code and the
\* octets its pack() returns; nothing checks the buffer before the writes
RECURSIVE PackOpt(_, _, _)
PackOpt(st, fv, j) ==
    IF j > Len(fv) THEN st
    ELSE IF st.off + 4 + Len(fv[j].Data) > st.msg.len THEN [st EXCEPT !.err = "panic"]
    ELSE PackOpt([st EXCEPT !.msg = WrSeq(st.msg, st.off,
                                          packUint16(fv[j].Code)
                                              \o packUint16(Len(fv[j].Data)) \o fv[j].Data),
                            !.off = st.off + 4 + Len(fv[j].Data)],
                 fv, j + 1)

PackName2(st, s, compress) == PackDomainName(s, st.msg, st.off, st.comp, compress)

PackField(v, f, st, compress) ==
    CASE f.typ = "uint8" -> PackFixed(st, 1, <<v % 256>>)
      [] f.typ = "uint16" -> PackFixed(st, 2, packUint16(v))
      [] f.typ = "uint32" ->
            PackFixed(st, 4, packUint16((v \div 65536) % 65536) \o packUint16(v % 65536))
      [] f.typ = "ip" /\ f.tag = "a" -> PackIPa(st, v)
      [] f.typ = "string" /\ f.tag = "cdomain" -> PackName2(st, v, compress)
      [] f.typ = "string" /\ f.tag = "domain" -> PackName2(st, v, FALSE)
      [] f.typ = "string" /\ f.tag = "hex" -> PackHex(st, v)
      [] f.typ = "uint16s" /\ f.tag = "nsec" -> PackNsec(st, v)
      [] f.typ = "uint16s" /\ f.tag = "wks" -> PackWks(st, v)
      [] f.typ = "edns0s" -> PackOpt(st, v, 1)
      [] OTHER -> [st EXCEPT !.err = "ErrTag"]

RECURSIVE PackFields(_, _, _, _, _)
PackFields(any, fields, k, st, compress) ==
    IF k > Len(fields) \/ st.err # "nil" THEN st
    ELSE PackFields(any, fields, k + 1,
                    PackField(any[fields[k].name], fields[k], st, compress), compress)

\* What PackStruct returns: len(msg) for the offset when a field failed
PackStructReturn(st, msg) ==
    IF st.err # "nil" THEN [st EXCEPT !.off = IF st.err = "panic" THEN st.off ELSE msg.len]
    ELSE st

PackStruct(any, msg, off, compression, compress) ==
    PackStructReturn(PackFields(any, Walk(any), 1, PSt(msg, off, compression, "nil"),
                                compress), msg)

----------------------------------------------------------------------------
(* UnpackStruct *)

USt(any, off, err) == [any |-> any, off |-> off, err |-> err]

\* rdstart is declared in the walker and never assigned
rdstart == 0

UnpackHex(any, f, msg, off) ==
    LET endrr == rdstart + rdlengthHelper(any)
    IN  IF endrr > msg.len THEN USt(any, off, "ErrShortBuf")
        ELSE IF off > endrr THEN USt(any, off, "panic")
        ELSE USt([any EXCEPT ![f.name] = HexEncodeToString(Bytes(msg, off, endrr))],
                 endrr, "nil")

\* The type codes of the bits set in the length octets of one window, in
\* the order the walker appends them; -1 marks a clear bit
NsecBits(msg, off, window, length) ==
    SelectSeq([i \in 1 .. 8 * length |->
                  IF Bit(Rd(msg, off + ((i - 1) \div 8)), 7 - ((i - 1) % 8)) = 1
                  THEN (window * 256 + i - 1) % 65536 ELSE -1],
              LAMBDA c : c # -1)

\* The "wks" case: the octets from off to endrr are one bitmap whose octet
\* j holds the codes 8j .. 8j+7
UnpackWks(any, f, msg, off) ==
    IF off >= rdstart + rdlengthHelper(any) THEN USt([any EXCEPT ![f.name] = <<>>], off, "nil")
    ELSE IF rdstart + rdlengthHelper(any) > msg.len THEN USt(any, off, "panic")
    ELSE USt([any EXCEPT ![f.name] =
                  NsecBits(msg, off, 0, rdstart + rdlengthHelper(any) - off)],
             rdstart + rdlengthHelper(any), "nil")

\* The "nsec" loop over the windows, nsec being the codes found so far
RECURSIVE UnpackNsecLoop(_, _, _, _, _, _)
UnpackNsecLoop(any, f, msg, off, endrr, nsec) ==
    IF ~(off + 2 < endrr) THEN USt([any EXCEPT ![f.name] = nsec], off, "nil")
    ELSE IF off + 1 >= msg.len THEN USt(any, off, "panic")
    ELSE IF Rd(msg, off + 1) = 0 \/ Rd(msg, off + 1) > 32 THEN USt(any, off, "ErrFmt")
    ELSE IF off + 2 + Rd(msg, off + 1) > msg.len THEN USt(any, off, "panic")
    ELSE UnpackNsecLoop(any, f, msg, off + 2 + Rd(msg, off + 1), endrr,
                        nsec \o NsecBits(msg, off + 2, Rd(msg, off), Rd(msg, off + 1)))

UnpackNsec(any, f, msg, off) ==
    IF rdlengthHelper(any) = 0 THEN USt(any, off, "ErrFmt")
    ELSE IF off + 2 > msg.len THEN USt(any, off, "ErrShortBuf")
    ELSE UnpackNsecLoop(any, f, msg, off, rdstart + rdlengthHelper(any), <<>>)

\* The []EDNS0 case after rdlength was found non-zero: one code and one
\* length are read at off; an NSID or SUBNET option is kept and off moves
\* behind it, any other code leaves the list empty and off behind the code
UnpackOptOne(any, f, msg, off, code, optlen) ==
    IF off + 4 + optlen > off + 2 + rdlengthHelper(any) THEN USt(any, off + 2, "ErrShortBuf")
    ELSE IF code \notin {EDNS0NSID, EDNS0SUBNET}
    THEN USt([any EXCEPT ![f.name] = <<>>], off + 2, "nil")
    ELSE IF off + 4 + optlen > msg.len THEN USt(any, off + 2, "panic")
    ELSE USt([any EXCEPT ![f.name] =
                  <<[Code |-> code, Data |-> Bytes(msg, off + 4, off + 4 + optlen)]>>],
             off + 4 + optlen, "nil")

UnpackOpt(any, f, msg, off) ==
    IF rdlengthHelper(any) = 0 THEN USt(any, off, "nil")
    ELSE IF off + 4 > msg.len THEN USt(any, off, "panic")
    ELSE UnpackOptOne(any, f, msg, off, Rd(msg, off) * 256 + Rd(msg, off + 1),
                      Rd(msg, off + 2) * 256 + Rd(msg, off + 3))

SetName(any, f, r) ==
    IF r.err # "nil" THEN USt(any, r.off, r.err)
    ELSE USt([any EXCEPT ![f.name] = r.s], r.off, "nil")

UnpackName2(any, f, msg, off) == SetName(any, f, UnpackDomainName(msg, off))

UnpackInt(any, f, msg, off, n) ==
    IF off + n > msg.len THEN USt(any, off, "ErrShortBuf")
    ELSE USt([any EXCEPT ![f.name] =
                  IF n = 1 THEN Rd(msg, off)
                  ELSE IF n = 2 THEN Rd(msg, off) * 256 + Rd(msg, off + 1)
                  ELSE ((Rd(msg, off) * 256 + Rd(msg, off + 1)) * 256 + Rd(msg, off + 2)) * 256
                       + Rd(msg, off + 3)],
             off + n, "nil")

UnpackIPa(any, f, msg, off) ==
    IF off + 4 > msg.len THEN USt(any, off, "ErrShortBuf")
    ELSE USt([any EXCEPT ![f.name] =
                  IPv4(Rd(msg, off), Rd(msg, off + 1), Rd(msg, off + 2), Rd(msg, off + 3))],
             off + 4, "nil")

UnpackField(any, f, msg, off) ==
    CASE f.typ = "uint8" -> UnpackInt(any, f, msg, off, 1)
      [] f.typ = "uint16" -> UnpackInt(any, f, msg, off, 2)
      [] f.typ = "uint32" -> UnpackInt(any, f, msg, off, 4)
      [] f.typ = "ip" /\ f.tag = "a" -> UnpackIPa(any, f, msg, off)
      [] f.typ = "string" /\ f.tag \in {"cdomain", "domain"} -> UnpackName2(any, f, msg, off)
      [] f.typ = "string" /\ f.tag = "hex" -> UnpackHex(any, f, msg, off)
      [] f.typ = "uint16s" /\ f.tag = "nsec" -> UnpackNsec(any, f, msg, off)
      [] f.typ = "uint16s" /\ f.tag = "wks" -> UnpackWks(any, f, msg, off)
      [] f.typ = "edns0s" -> UnpackOpt(any, f, msg, off)
      [] OTHER -> USt(any, off, "ErrTag")

RECURSIVE UnpackFields(_, _, _, _)
UnpackFields(fields, k, msg, st) ==
    IF k > Len(fields) \/ st.err # "nil" THEN st
    ELSE UnpackFields(fields, k + 1, msg, UnpackField(st.any, fields[k], msg, st.off))

UnpackStructReturn(st, msg) ==
    IF st.err \notin {"nil", "panic"} THEN [st EXCEPT !.off = msg.len] ELSE st

UnpackStruct(any, msg, off) ==
    UnpackStructReturn(UnpackFields(Walk(any), 1, msg, USt(any, off, "nil")), msg)

----------------------------------------------------------------------------
(* PackRR and UnpackRR *)

\* Skips the owner name at off, then the 8 octets of type, class and ttl, and
\* stores end - (off + 2) there; FALSE when that lies outside the buffer
RECURSIVE rawSkipName(_, _)
rawSkipName(msg, off) ==
    IF off + 1 > msg.len THEN -1
    ELSE LET c == Rd(msg, off)
         IN  IF c \div 64 = 0
             THEN IF c = 0 THEN off + 1
                  ELSE IF off + 1 + c > msg.len THEN -1
                  ELSE rawSkipName(msg, off + 1 + c)
             ELSE off + 2

rawSetRdlengthAt(msg, o, end) ==
    IF o = -1 \/ o + 8 + 2 > msg.len \/ end - (o + 10) > 65535
    THEN [ok |-> FALSE, msg |-> msg]
    ELSE [ok |-> TRUE, msg |-> WrSeq(msg, o + 8, packUint16(end - (o + 10)))]

rawSetRdlength(msg, off, end) == rawSetRdlengthAt(msg, rawSkipName(msg, off), end)

\* PackRR after PackStruct returned st: the RDLENGTH is patched in
PackRRLength(st, r, msg) ==
    IF ~r.ok THEN [st EXCEPT !.off = msg.len, !.err = "ErrShortBuf"]
    ELSE [st EXCEPT !.msg = r.msg]

PackRRPacked(st, msg, off) ==
    IF st.err = "panic" THEN st
    ELSE IF st.err # "nil" THEN [st EXCEPT !.off = msg.len]
    ELSE PackRRLength(st, rawSetRdlength(st.msg, off, st.off), msg)

PackRR(rr, msg, off, compression, compress) ==
    IF rr = NilRR THEN PSt(msg, msg.len, compression, "ErrFmt")
    ELSE PackRRPacked(PackStruct(rr, msg, off, compression, compress), msg, off)

\* mk: a fresh record of the type in the header, RR_RFC3597 when unknown
mk(Rrtype) ==
    IF Rrtype \in DOMAIN TypeToRR THEN New(TypeToRR[Rrtype]) ELSE New("RR_RFC3597")

\* UnpackRR after the whole record was unpacked into r, h being its header
UnpackRRBody(h, r) ==
    IF r.err = "panic" THEN [rr |-> NilRR, off |-> r.off, err |-> "panic"]
    ELSE IF r.off # h.off + h.any.Rdlength
    THEN [rr |-> h.any, off |-> h.off + h.any.Rdlength, err |-> "nil"]
    ELSE [rr |-> r.any, off |-> r.off, err |-> r.err]

\* UnpackRR after the header was unpacked into h
UnpackRRHeader(h, msg, off) ==
    IF h.err # "nil" THEN [rr |-> NilRR, off |-> msg.len, err |-> h.err]
    ELSE UnpackRRBody(h, UnpackStruct(mk(h.any.Rrtype), msg, off))

UnpackRR(msg, off) == UnpackRRHeader(UnpackStruct(New("RR_Header"), msg, off), msg, off)

----------------------------------------------------------------------------
(* Msg: Pack, Unpack, Len *)

QR == 32768
AA == 1024
TC == 512
RD == 256
RA == 128
Z == 64
AD == 32
CD == 16

NewMsg ==
    [Id |-> 0, Response |-> FALSE, Opcode |-> 0, Authoritative |-> FALSE,
     Truncated |-> FALSE, RecursionDesired |-> FALSE, RecursionAvailable |-> FALSE,
     Zero |-> FALSE, AuthenticatedData |-> FALSE, CheckingDisabled |-> FALSE,
     Rcode |-> 0, Compress |-> FALSE, Size |-> 0,
     Question |-> <<>>, Answer |-> <<>>, Ns |-> <<>>, Extra |-> <<>>]

Flag(b, bit) == IF b THEN bit ELSE 0

MsgBits(d) ==
    Or16(Or16(((d.Opcode % 65536) * 2048) % 65536, d.Rcode % 65536),
         Flag(d.Response, QR) + Flag(d.Authoritative, AA) + Flag(d.Truncated, TC)
         + Flag(d.RecursionDesired, RD) + Flag(d.RecursionAvailable, RA) + Flag(d.Zero, Z)
         + Flag(d.AuthenticatedData, AD) + Flag(d.CheckingDisabled, CD))

\* SplitLabels: the labels of a name, split at the dots not preceded by a backslash
RECURSIVE SplitFrom(_, _, _)
SplitFrom(s, k, i) ==
    IF i > Len(s) THEN <<>>
    ELSE IF s[i] = Dot /\ ~(i > 1 /\ s[i - 1] = Bsl)
         THEN <<SubSeq(s, k, i - 1)>> \o SplitFrom(s, i + 1, i + 1)
         ELSE SplitFrom(s, k, i + 1)

SplitLabels(s) == IF s = <<Dot>> THEN <<>> ELSE SplitFrom(s, 1, 1)

RECURSIVE compressionFrom(_, _, _, _)
compressionFrom(c, lbs, j, pref) ==
    IF j < 1 THEN c
    ELSE LET key == lbs[j] \o <<Dot>> \o pref
         IN  compressionFrom((key :> (1 + Len(pref) + Len(lbs[j]))) @@ c, lbs, j - 1, key)

compressionHelper(c, s) == LET lbs == SplitLabels(s) IN compressionFrom(c, lbs, Len(lbs), <<>>)

RR_HeaderLen(h) == Len(h.Name) + 1 + 10

RRLen(rr) ==
    CASE rr.kind = "Question" -> Len(rr.Name) + 1 + 4
      [] rr.kind = "RR_Header" -> RR_HeaderLen(rr)
      [] rr.kind = "RR_A" -> RR_HeaderLen(rr) + 4
      [] rr.kind = "RR_NS" -> RR_HeaderLen(rr) + Len(rr.Ns) + 1
      [] rr.kind = "RR_RFC3597" -> RR_HeaderLen(rr) + Len(rr.Rdata) \div 2

RECURSIVE LenQuestions(_, _, _)
LenQuestions(d, i, st) ==
    IF i > Len(d.Question) THEN st
    ELSE LenQuestions(d, i + 1,
            [l |-> st.l + RRLen(d.Question[i]),
             c |-> IF d.Compress THEN compressionHelper(st.c, d.Question[i].Name)
                   ELSE st.c])

RECURSIVE LenSection(_, _, _, _)
LenSection(compress, sec, i, st) ==
    IF i > Len(sec) THEN st
    ELSE IF compress /\ sec[i].Name \in DOMAIN st.c
         THEN LenSection(compress, sec, i + 1,
                         [st EXCEPT !.l = st.l + RRLen(sec[i]) - st.c[sec[i].Name]])
         ELSE LenSection(compress, sec, i + 1,
                         [l |-> st.l + RRLen(sec[i]),
                          c |-> IF compress THEN compressionHelper(st.c, sec[i].Name)
                                ELSE st.c])

MsgLen(d) ==
    LenSection(d.Compress, d.Extra, 1,
        LenSection(d.Compress, d.Ns, 1,
            LenSection(d.Compress, d.Answer, 1,
                LenQuestions(d, 1, [l |-> 12, c |-> <<>>])))).l

RECURSIVE PackSection(_, _, _, _, _)
PackSection(sec, i, st, compress, isRR) ==
    IF i > Len(sec) \/ st.err = "panic" THEN st
    ELSE PackSection(sec, i + 1,
                     IF isRR THEN PackRR(sec[i], st.msg, st.off, st.comp, compress)
                     ELSE PackStruct(sec[i], st.msg, st.off, st.comp, compress),
                     compress, isRR)

\* The wire-like Header of a Msg
MsgHeader(d) ==
    [kind |-> "Header", Id |-> d.Id, Bits |-> MsgBits(d),
     Qdcount |-> Len(d.Question) % 65536, Ancount |-> Len(d.Answer) % 65536,
     Nscount |-> Len(d.Ns) % 65536, Arcount |-> Len(d.Extra) % 65536]

MsgPackRun(d) ==
    PackSection(d.Extra, 1,
        PackSection(d.Ns, 1,
            PackSection(d.Answer, 1,
                PackSection(d.Question, 1,
                    PackStruct(MsgHeader(d), MakeBuf(MsgLen(d) + 10), 0, MakeMap, d.Compress),
                    d.Compress, FALSE),
                d.Compress, TRUE),
            d.Compress, TRUE),
        d.Compress, TRUE)

MsgPackReturn(st) ==
    IF st.err # "nil" THEN [msg |-> <<>>, isnil |-> TRUE, err |-> st.err]
    ELSE [msg |-> Bytes(st.msg, 0, st.off), isnil |-> FALSE, err |-> "nil"]

MsgPack(d) == MsgPackReturn(MsgPackRun(d))

\* dns.Question[i] is unpacked in place; r is what UnpackStruct returned
SetQuestion(st, i, r) ==
    [dns |-> [st.dns EXCEPT !.Question[i] = r.any], off |-> r.off, err |-> r.err]

\* dns.Answer[i], off, err = UnpackRR(msg, off), r being what UnpackRR returned
SetRR(st, sec, i, r) ==
    IF r.err = "panic" THEN [st EXCEPT !.err = "panic"]
    ELSE [dns |-> [st.dns EXCEPT ![sec][i] = r.rr], off |-> r.off, err |-> r.err]

RECURSIVE UnpackSection(_, _, _, _)
UnpackSection(sec, i, msg, st) ==
    IF i > Len(st.dns[sec]) \/ st.err = "panic" THEN st
    ELSE IF sec = "Question"
    THEN UnpackSection(sec, i + 1, msg,
                       SetQuestion(st, i, UnpackStruct(st.dns.Question[i], msg, st.off)))
    ELSE UnpackSection(sec, i + 1, msg, SetRR(st, sec, i, UnpackRR(msg, st.off)))

\* Msg.Unpack's last lines without the comparison of off with len(msg)
MsgUnpackNoCheck(st, msg) == st

MsgUnpackCheck(st, msg) ==
    IF st.err # "nil" THEN st
    ELSE IF st.off # msg.len THEN [st EXCEPT !.err = "ErrShortBuf"]
    ELSE st

\* The receiver after the header dh was copied in and the arrays were made
SetHeader(d, dh) ==
    [d EXCEPT !.Id = dh.Id,
              !.Response = Bit(dh.Bits, 15) = 1,
              !.Opcode = (dh.Bits \div 2048) % 16,
              !.Authoritative = Bit(dh.Bits, 10) = 1,
              !.Truncated = Bit(dh.Bits, 9) = 1,
              !.RecursionDesired = Bit(dh.Bits, 8) = 1,
              !.RecursionAvailable = Bit(dh.Bits, 7) = 1,
              !.Zero = Bit(dh.Bits, 6) = 1,
              !.AuthenticatedData = Bit(dh.Bits, 5) = 1,
              !.CheckingDisabled = Bit(dh.Bits, 4) = 1,
              !.Rcode = dh.Bits % 16,
              !.Question = [k \in 1 .. dh.Qdcount |-> New("Question")],
              !.Answer = [k \in 1 .. dh.Ancount |-> NilRR],
              !.Ns = [k \in 1 .. dh.Nscount |-> NilRR],
              !.Extra = [k \in 1 .. dh.Arcount |-> NilRR]]

\* Msg.Unpack after the header was unpacked into h
MsgUnpackBody(d, msg, h) ==
    IF h.err # "nil" THEN [dns |-> d, off |-> h.off, err |-> h.err]
    ELSE MsgUnpackCheck(
             UnpackSection("Extra", 1, msg,
                 UnpackSection("Ns", 1, msg,
                     UnpackSection("Answer", 1, msg,
                         UnpackSection("Question", 1, msg,
                             [dns |-> SetHeader(d, h.any), off |-> h.off, err |-> "nil"])))),
             msg)

MsgUnpack(d, msg) == MsgUnpackBody(d, msg, UnpackStruct(New("Header"), msg, 0))

----------------------------------------------------------------------------
(* What a name means, stated without the codec *)

\* The last position before i that holds no backslash, 0 when there is none
LastOther(s, i) ==
    CHOOSE k \in 0 .. (i - 1) :
        (k = 0 \/ s[k] # Bsl) /\ \A j \in (k + 1) .. (i - 1) : s[j] = Bsl

\* The octet at i is taken by a backslash: an odd run of them stands before it
Escaped(s, i) == (i - 1 - LastOther(s, i)) % 2 = 1

\* The positions of the unescaped dots of s, each of which ends a label
Seps(s) == {i \in 1 .. Len(s) : s[i] = Dot /\ ~Escaped(s, i)}

PrevSep(s, d) ==
    CHOOSE e \in {0} \cup Seps(s) : e < d /\ \A x \in Seps(s) : x < d => x <= e

\* The number of octets of the label that the dot at d ends
LabelLen(s, d) ==
    d - PrevSep(s, d) - 1
      - Cardinality({i \in (PrevSep(s, d) + 1) .. (d - 1) : s[i] = Bsl /\ ~Escaped(s, i)})

\* The positions between the dot at d and the one before it that hold an
\* octet of the label: all but the backslashes that escape
LabelPositions(s, d) ==
    {i \in (PrevSep(s, d) + 1) .. (d - 1) : ~(s[i] = Bsl /\ ~Escaped(s, i))}

\* The label that the dot at d ends
LabelOf(s, d) ==
    LET P == LabelPositions(s, d)
    IN  IF Cardinality(P) = d - PrevSep(s, d) - 1 THEN SubSeq(s, PrevSep(s, d) + 1, d - 1)
        ELSE [k \in 1 .. Cardinality(P) |->
                 s[CHOOSE i \in P : Cardinality({j \in P : j <= i}) = k]]

\* The labels of a name in presentation format: a backslash makes the next
\* octet part of the label, an unescaped dot ends the label
RefLabels(s) ==
    IF s = <<Dot>> THEN <<>>
    ELSE [n \in 1 .. Cardinality(Seps(s)) |->
             LabelOf(s, CHOOSE d \in Seps(s) : Cardinality({e \in Seps(s) : e <= d}) = n)]

\* The labels as length-prefixed octets, without the closing zero
RECURSIVE RefWire(_)
RefWire(lbs) ==
    IF lbs = <<>> THEN <<>> ELSE <<Len(Head(lbs))>> \o Head(lbs) \o RefWire(Tail(lbs))

\* The number of trailing labels two label lists have in common
RECURSIVE SharedLabels(_, _)
SharedLabels(x, y) ==
    IF x = <<>> \/ y = <<>> \/ x[Len(x)] # y[Len(y)] THEN 0
    ELSE 1 + SharedLabels(SubSeq(x, 1, Len(x) - 1), SubSeq(y, 1, Len(y) - 1))

----------------------------------------------------------------------------
(* PackDomainName scenario: names packed one after the other into one      *)
(* buffer with one compression map                                         *)

MaxNames == 2
BufLen == 16420

\* The names "a.", "b.a.", "A.b.a.", "a\.b.", "\..a.b.", "a.b.", ".",
\* "a\\b." and "a" (97 is a, 98 is b, 65 is A)
NameA == <<97, Dot>>
NameBA == <<98, Dot, 97, Dot>>
NameABA == <<65, Dot, 98, Dot, 97, Dot>>
NameEsc == <<97, Bsl, Dot, 98, Dot>>
NameEsc2 == <<Bsl, Dot, Dot, 97, Dot, 98, Dot>>
NameAB == <<97, Dot, 98, Dot>>
NameRoot == <<Dot>>
NameBsl == <<97, Bsl, Bsl, 98, Dot>>
NameNotFq == <<97>>
\* "", "a\.", "a..b.", and one label of 63 and of 64 octets before the dot
NameEmpty == <<>>
NameEscEnd == <<97, Bsl, Dot>>
NameGap == <<97, Dot, Dot, 98, Dot>>
Name63 == [k \in 1 .. 63 |-> 97] \o <<Dot>>
Name64 == [k \in 1 .. 64 |-> 97] \o <<Dot>>

Names ==
    {NameRoot, NameA, NameBA, NameABA, NameAB, NameEsc, NameEsc2, NameBsl, NameNotFq,
     NameEmpty, NameEscEnd, NameGap, Name63, Name64}

StartOffsets == {0, 12, 16380}

InitName ==
    /\ nbuf = MakeBuf(BufLen)
    /\ noff \in StartOffsets
    /\ ncomp = MakeMap
    /\ nlog = <<>>
    /\ ust = [on |-> FALSE]
    /\ m = [on |-> FALSE] /\ wire = <<>> /\ perr = NoErr
    /\ dns = [on |-> FALSE] /\ ures = [on |-> FALSE] /\ pc = "idle"
    /\ rrst = [on |-> FALSE]
    /\ dd = [on |-> FALSE]
    /\ cc = [on |-> FALSE] /\ rl = [on |-> FALSE]

\* The caller's view after PackDomainName(s, nbuf, noff, ncomp, compress) returned r
PackNameReturns(s, compress, r) ==
    /\ nbuf' = r.msg
    /\ noff' = r.off
    /\ ncomp' = r.comp
    /\ nlog' = Append(nlog, [name |-> s, compress |-> compress, start |-> noff,
                             end |-> r.off, err |-> r.err,
                             out |-> IF r.err = "nil" THEN Bytes(r.msg, noff, r.off)
                                     ELSE <<>>])

PackName(s, compress) ==
    /\ Len(nlog) < MaxNames
    /\ Len(nlog) > 0 => nlog[Len(nlog)].err = "nil"
    /\ PackNameReturns(s, compress, PackDomainName(s, nbuf, noff, ncomp, compress))
    /\ UNCHANGED <<ust, m, wire, perr, dns, ures, pc, rrst, dd, cc, rl>>

NextName == \E s \in Names, compress \in BOOLEAN : PackName(s, compress)

SpecName == InitName /\ [][NextName]_vars

----------------------------------------------------------------------------
(* Escaping scenario: a name on the wire, its labels made of any of the    *)
(* octets a, dot and backslash, is decoded by UnpackDomainName and the     *)
(* text is packed again by PackDomainName, without compression             *)

MaxLabelLen == 2
MaxLabels == 2

WireLabels == {q \in SeqsUpTo({97, Dot, Bsl}, MaxLabelLen) : Len(q) >= 1}

InitEscape ==
    /\ nbuf = MakeBuf(BufLen) /\ noff = 0 /\ ncomp = NilMap /\ nlog = <<>>
    /\ \E lbs \in SeqsUpTo(WireLabels, MaxLabels) :
          ust = [on |-> TRUE, msg |-> FromSeq(RefWire(lbs) \o <<0>>), start |-> 0,
                 st |-> UDNInit(0)]
    /\ m = [on |-> FALSE] /\ wire = <<>> /\ perr = NoErr
    /\ dns = [on |-> FALSE] /\ ures = [on |-> FALSE] /\ pc = "idle"
    /\ rrst = [on |-> FALSE]
    /\ dd = [on |-> FALSE]
    /\ cc = [on |-> FALSE] /\ rl = [on |-> FALSE]

\* The name UnpackDomainName returned is handed to PackDomainName
Repack ==
    /\ ust.on /\ ust.st.done /\ ust.st.err = "nil" /\ nlog = <<>>
    /\ PackNameReturns(ust.st.s, FALSE, PackDomainName(ust.st.s, nbuf, noff, ncomp, FALSE))
    /\ UNCHANGED <<ust, m, wire, perr, dns, ures, pc, rrst, dd, cc, rl>>

NextEscape == UnpackNameStep \/ Repack

SpecEscape == InitEscape /\ [][NextEscape]_vars

----------------------------------------------------------------------------
(* Record scenario: one record packed by PackRR at an offset, its RDLENGTH *)
(* possibly rewritten on the wire, then unpacked by UnpackRR              *)

MaxRdlength == 6
RRBufLen == 64
MaxShort == 24

RRA(n) ==
    [New("RR_A") EXCEPT !.Name = n, !.Rrtype = TypeA, !.Class = ClassINET, !.Ttl = 30,
                        !.A = IPv4(10, 0, 0, 1)]

RRNS(n, t) ==
    [New("RR_NS") EXCEPT !.Name = n, !.Rrtype = TypeNS, !.Class = ClassINET, !.Ttl = 3600,
                         !.Ns = t]

RRUnknown(n, typ, hex) ==
    [New("RR_RFC3597") EXCEPT !.Name = n, !.Rrtype = typ, !.Class = ClassINET, !.Ttl = 30,
                              !.Rdata = hex]

RRNSEC(n, next, bitmap) ==
    [New("RR_NSEC") EXCEPT !.Name = n, !.Rrtype = TypeNSEC, !.Class = ClassINET, !.Ttl = 30,
                           !.NextDomain = next, !.TypeBitMap = bitmap]

\* An OPT record: root owner, the UDP size in Class, the options given
RROPT(options) ==
    [New("RR_OPT") EXCEPT !.Name = <<Dot>>, !.Rrtype = TypeOPT, !.Class = 4096,
                          !.Option = options]

\* A WKS record: an address, protocol 6 and the service codes given
RRWKS(n, bitmap) ==
    [New("RR_WKS") EXCEPT !.Name = n, !.Rrtype = TypeWKS, !.Class = ClassINET, !.Ttl = 30,
                          !.Address = IPv4(10, 0, 0, 1), !.Protocol = 6, !.BitMap = bitmap]

Hex0123 == <<48, 49, 50, 51>>
RecordSet ==
    {RRA(NameA), RRA(NameBA), RRA(NameRoot), RRNS(NameBA, NameA), RRNS(NameA, NameABA),
     RRUnknown(NameA, typeMAGIC, Hex0123),
     RRUnknown(NameRoot, typeMAGIC, <<48, 49, 48, 50, 48, 51, 48, 52, 48, 53>>),
     [New("MAGIC") EXCEPT !.Name = NameBA, !.Rrtype = typeMAGIC, !.Class = ClassINET,
                          !.Ttl = 30, !.Code = Hex0123],
     RROPT(<<>>), RROPT(<<[Code |-> EDNS0NSID, Data |-> <<97, 98>>]>>),
     RROPT(<<[Code |-> 65001, Data |-> <<1, 2, 3>>]>>),
     RROPT(<<[Code |-> EDNS0NSID, Data |-> <<97>>], [Code |-> EDNS0NSID, Data |-> <<98>>]>>),
     RRNSEC(NameA, NameBA, <<1>>), RRNSEC(NameA, NameBA, <<1, 15, 16, 28, 65535>>),
     RRNSEC(NameA, NameBA, <<258>>), RRNSEC(NameRoot, NameRoot, <<1, 15, 16, 28, 65535>>),
     RRWKS(NameA, <<>>), RRWKS(NameA, <<25>>), RRWKS(NameA, <<21, 23>>),
     RRWKS(NameA, <<25, 80>>)}

InitRR ==
    /\ nbuf = MakeBuf(0) /\ noff = 0 /\ ncomp = MakeMap /\ nlog = <<>>
    /\ ust = [on |-> FALSE]
    /\ dd = [on |-> FALSE]
    /\ cc = [on |-> FALSE] /\ rl = [on |-> FALSE]
    /\ m = [on |-> FALSE] /\ wire = <<>> /\ perr = NoErr
    /\ dns = [on |-> FALSE] /\ ures = [on |-> FALSE] /\ pc = "idle"
    /\ \E rr \in RecordSet, o \in {0, 3}, reg \in BOOLEAN :
          rrst = [on |-> TRUE, at |-> "new", rr |-> rr, off0 |-> o, msg |-> MakeBuf(0),
                  registered |-> reg,
                  hdrend |-> 0, actual |-> 0, declared |-> 0, res |-> [rr |-> NilRR, off |-> 0, err |-> "nil"]]

\* The record on the wire after PackRR returned r: msg[:off1], and the
\* number of payload octets behind the record header
PackRecordReturns(r, hdrend) ==
    /\ r.err = "nil"
    /\ rrst' = [rrst EXCEPT !.at = "packed", !.msg = [r.msg EXCEPT !.len = r.off],
                            !.hdrend = hdrend,
                            !.actual = r.off - hdrend, !.declared = r.off - hdrend]

PackRecord ==
    /\ rrst.on /\ rrst.at = "new"
    /\ PackRecordReturns(PackRR(rrst.rr, MakeBuf(RRBufLen), rrst.off0, NilMap, FALSE),
                         rrst.off0 + Len(RefWire(RefLabels(rrst.rr.Name))) + 1 + 10)
    /\ UNCHANGED <<nbuf, noff, ncomp, nlog, ust, m, wire, perr, dns, ures, pc, dd, cc, rl>>

\* PackRR into a buffer of n octets, too short for most records: the buffer
\* as PackRR leaves it, the offset and the error are what the caller sees
PackShortReturns(r) ==
    rrst' = [rrst EXCEPT !.at = "tried", !.msg = r.msg,
                         !.res = [rr |-> NilRR, off |-> r.off, err |-> r.err]]

PackShort(n) ==
    /\ rrst.on /\ rrst.at = "new"
    /\ PackShortReturns(PackRR(rrst.rr, MakeBuf(n), rrst.off0, NilMap, FALSE))
    /\ UNCHANGED <<nbuf, noff, ncomp, nlog, ust, m, wire, perr, dns, ures, pc, dd, cc, rl>>

SetRdlength(d) ==
    /\ rrst.on /\ rrst.at = "packed" /\ d # rrst.actual
    /\ rrst' = [rrst EXCEPT !.at = "patched", !.declared = d,
                            !.msg = WrSeq(rrst.msg, rrst.hdrend - 2, packUint16(d))]
    /\ UNCHANGED <<nbuf, noff, ncomp, nlog, ust, m, wire, perr, dns, ures, pc, dd, cc, rl>>

UnpackRecord ==
    /\ rrst.on /\ rrst.at \in {"packed", "patched"}
    /\ rrst' = [rrst EXCEPT !.at = "unpacked", !.res = UnpackRR(rrst.msg, rrst.off0)]
    /\ UNCHANGED <<nbuf, noff, ncomp, nlog, ust, m, wire, perr, dns, ures, pc, dd, cc, rl>>

NextRR ==
    \/ PackRecord
    \/ \E n \in 0 .. MaxShort : PackShort(n)
    \/ \E d \in 0 .. MaxRdlength : SetRdlength(d)
    \/ UnpackRecord

SpecRR == InitRR /\ [][NextRR]_vars

----------------------------------------------------------------------------
(* Message scenario: a Msg is packed, the octets may be damaged on the     *)
(* way, and a fresh Msg unpacks them                                       *)

MaxQuestion == 1
MaxAnswer == 2
MaxCut == 2
MaxRepeat == 11

Q(n) == [New("Question") EXCEPT !.Name = n, !.Qtype = TypeA, !.Qclass = ClassINET]

QuestionSet == {Q(NameA), Q(NameEsc), Q(NameBsl), Q(NameNotFq)}

AnswerSet ==
    {RRA(NameA), RRA(NameEsc2), RRNS(NameBA, NameA), RRUnknown(NameA, typeMAGIC, Hex0123)}

TailSet ==
    {[Ns |-> <<>>, Extra |-> <<>>],
     [Ns |-> <<RRNS(NameA, NameABA)>>, Extra |-> <<RRA(NameBA)>>]}

Msgs ==
    {[NewMsg EXCEPT !.Id = 4660, !.Response = TRUE, !.RecursionDesired = TRUE, !.Rcode = 3,
                    !.Compress = c, !.Question = q, !.Answer = a,
                    !.Ns = t.Ns, !.Extra = t.Extra] :
        c \in BOOLEAN, q \in SeqsUpTo(QuestionSet, MaxQuestion),
        a \in SeqsUpTo(AnswerSet, MaxAnswer), t \in TailSet}

\* Messages whose answers all repeat the owner name of the question
RepeatMsgs ==
    {[NewMsg EXCEPT !.Id = 4660, !.Compress = c, !.Question = <<Q(NameA)>>,
                    !.Answer = [k \in 1 .. n |-> RRA(NameA)]] :
        c \in BOOLEAN, n \in {MaxRepeat - 1, MaxRepeat}}

\* The boolean fields of MsgHdr, in the order of their bits from QR down
HdrFlags ==
    <<"Response", "Authoritative", "Truncated", "RecursionDesired", "RecursionAvailable",
      "Zero", "AuthenticatedData", "CheckingDisabled">>

\* Messages without entries whose header varies: each opcode and rcode of
\* the lists, with no flag, any one flag or all flags set
HeaderMsgs ==
    {[[f \in DOMAIN NewMsg |->
          IF \E k \in 1 .. 8 : HdrFlags[k] = f THEN (on = 9 \/ (on \in 1 .. 8 /\ HdrFlags[on] = f))
          ELSE NewMsg[f]]
         EXCEPT !.Id = 4660, !.Opcode = op, !.Rcode = rc] :
        op \in {0, 5, 15, 16}, rc \in {0, 3, 15, 16, 22}, on \in 0 .. 9}

At(at, how, arg) == [at |-> at, how |-> how, arg |-> arg]

Init ==
    /\ nbuf = MakeBuf(0) /\ noff = 0 /\ ncomp = MakeMap /\ nlog = <<>>
    /\ ust = [on |-> FALSE]
    /\ rrst = [on |-> FALSE]
    /\ dd = [on |-> FALSE]
    /\ cc = [on |-> FALSE] /\ rl = [on |-> FALSE]
    /\ m \in Msgs \cup RepeatMsgs \cup HeaderMsgs
    /\ wire = <<>>
    /\ perr = NoErr
    /\ dns = NewMsg
    /\ ures = [err |-> "nil", off |-> 0]
    /\ pc = At("new", "none", 0)

PackReturns(r) ==
    /\ wire' = r.msg
    /\ perr' = [err |-> r.err, isnil |-> r.isnil]
    /\ pc' = At(IF r.err = "nil" THEN "packed" ELSE "packfailed", "none", 0)

Pack ==
    /\ pc.at = "new"
    /\ PackReturns(MsgPack(m))
    /\ UNCHANGED <<nbuf, noff, ncomp, nlog, ust, rrst, m, dns, ures, dd, cc, rl>>

\* The header count of section sec (1: QDCOUNT .. 4: ARCOUNT) raised by one
InflateCount(sec) ==
    /\ pc.at = "packed"
    /\ wire[4 + 2 * sec] < 255
    /\ wire' = [wire EXCEPT ![4 + 2 * sec] = @ + 1]
    /\ pc' = At("damaged", "inflate", sec)
    /\ UNCHANGED <<nbuf, noff, ncomp, nlog, ust, rrst, m, perr, dns, ures, dd, cc, rl>>

AppendTrailing(b) ==
    /\ pc.at = "packed"
    /\ wire' = Append(wire, b)
    /\ pc' = At("damaged", "trailing", b)
    /\ UNCHANGED <<nbuf, noff, ncomp, nlog, ust, rrst, m, perr, dns, ures, dd, cc, rl>>

Truncate(n) ==
    /\ pc.at = "packed"
    /\ n <= Len(wire)
    /\ wire' = SubSeq(wire, 1, Len(wire) - n)
    /\ pc' = At("damaged", "truncate", n)
    /\ UNCHANGED <<nbuf, noff, ncomp, nlog, ust, rrst, m, perr, dns, ures, dd, cc, rl>>

UnpackReturns(r) ==
    /\ dns' = r.dns
    /\ ures' = [err |-> r.err, off |-> r.off]

Unpack ==
    /\ pc.at \in {"packed", "damaged"}
    /\ UnpackReturns(MsgUnpack(dns, FromSeq(wire)))
    /\ pc' = [pc EXCEPT !.at = "unpacked"]
    /\ UNCHANGED <<nbuf, noff, ncomp, nlog, ust, rrst, m, wire, perr, dd, cc, rl>>

Next ==
    \/ Pack
    \/ \E sec \in 1 .. 4 : InflateCount(sec)
    \/ \E b \in {0, 7} : AppendTrailing(b)
    \/ \E n \in 1 .. MaxCut : Truncate(n)
    \/ Unpack

Spec == Init /\ [][Next]_vars

----------------------------------------------------------------------------
(* Dedup (sanitize.go).  Records are objects on a heap, named by their     *)
(* index: a slice and the map hold references, so that a TTL written        *)
(* through the map is seen through the slice of the same record             *)

RECURSIVE Itoa(_)
Itoa(n) == IF n < 10 THEN <<48 + n>> ELSE Itoa(n \div 10) \o <<48 + (n % 10)>>

\* r.String(): DomainName<TAB>TTL<TAB>CLASS<TAB>TYPE<TAB>RDATA
RRString(r) == r.Name \o <<9>> \o Itoa(r.Ttl) \o <<9>> \o r.Rest

\* The scan of normalizedString from the 0-based index i
RECURSIVE NormScan(_, _, _, _, _)
NormScan(b, i, esc, ttlStart, ttlEnd) ==
    IF ~(i < Len(b) /\ ttlEnd = 0) THEN [b |-> b, ttlStart |-> ttlStart, ttlEnd |-> ttlEnd]
    ELSE IF b[i + 1] = Bsl THEN NormScan(b, i + 1, ~esc, ttlStart, ttlEnd)
    ELSE IF b[i + 1] = 9 /\ ~esc
    THEN IF ttlStart = 0 THEN NormScan(b, i + 1, esc, i, ttlEnd)
         ELSE NormScan(b, i + 1, esc, ttlStart, i)
    ELSE IF b[i + 1] >= 65 /\ b[i + 1] <= 90 /\ ~esc
    THEN NormScan([b EXCEPT ![i + 1] = @ + 32], i + 1, esc, ttlStart, ttlEnd)
    ELSE NormScan(b, i + 1, FALSE, ttlStart, ttlEnd)

\* The TTL is cut out: b[:ttlStart] and b[ttlEnd:]; without a second tab
\* the slice b[:len(b)-cut] reaches past the string
NormCut(r) ==
    IF r.ttlEnd < r.ttlStart THEN <<"panic">>
    ELSE SubSeq(r.b, 1, r.ttlStart) \o SubSeq(r.b, r.ttlEnd + 1, Len(r.b))

normalizedString(r) == NormCut(NormScan(RRString(r), 0, FALSE, 0, 0))

\* The first loop of Dedup from i: a record whose key is in the map lowers
\* the TTL of the record the map holds, any other record enters the map
RECURSIVE DedupFirst(_, _, _, _, _)
DedupFirst(heap, rrs, keys, i, tab) ==
    IF i > Len(rrs) THEN [heap |-> heap, tab |-> tab]
    ELSE IF keys[i] \in DOMAIN tab
    THEN DedupFirst(IF heap[tab[keys[i]]].Ttl > heap[rrs[i]].Ttl
                    THEN [heap EXCEPT ![tab[keys[i]]].Ttl = heap[rrs[i]].Ttl]
                    ELSE heap,
                    rrs, keys, i + 1, tab)
    ELSE DedupFirst(heap, rrs, keys, i + 1, (keys[i] :> rrs[i]) @@ tab)

\* The second loop of Dedup from i: a record whose key is still in the map
\* is kept and its key deleted; the loop ends once the map is empty
RECURSIVE DedupSecond(_, _, _, _, _)
DedupSecond(rrs, keys, i, tab, out) ==
    IF i > Len(rrs) THEN [out |-> out, tab |-> tab]
    ELSE IF keys[i] \in DOMAIN tab
    THEN IF DOMAIN tab = {keys[i]} THEN [out |-> Append(out, rrs[i]), tab |-> <<>>]
         ELSE DedupSecond(rrs, keys, i + 1,
                          [k \in DOMAIN tab \ {keys[i]} |-> tab[k]], Append(out, rrs[i]))
    ELSE IF DOMAIN tab = {} THEN [out |-> out, tab |-> tab]
    ELSE DedupSecond(rrs, keys, i + 1, tab, out)

\* Dedup after its first loop returned f
DedupRest(rrs, keys, f) ==
    IF Cardinality(DOMAIN f.tab) = Len(rrs) THEN [heap |-> f.heap, out |-> rrs, tab |-> f.tab]
    ELSE [heap |-> f.heap] @@ DedupSecond(rrs, keys, 1, f.tab, <<>>)

\* Dedup(rrs, m) on the heap: the records after the call, the slice
\* returned and the map as the call leaves it
Dedup(heap, rrs, mm) ==
    DedupRest(rrs, [i \in 1 .. Len(rrs) |-> normalizedString(heap[rrs[i]])],
              DedupFirst(heap, rrs, [i \in 1 .. Len(rrs) |-> normalizedString(heap[rrs[i]])],
                         1, IF mm.nil THEN <<>> ELSE mm.tab))

----------------------------------------------------------------------------
(* Dedup scenario: a slice of new records is deduplicated, with a nil map  *)
(* or with the caller's own map, which is handed in again to a second call *)

MaxDedupLen == 3
MaxReuseLen == 2
MaxDedupCalls == 2

\* Owner names "a.", "A.", "\A." and "\a.", two TTLs, one class, type and rdata
DedupRecords ==
    {[Name |-> n, Ttl |-> t, Rest |-> <<73, 78, 9, 65, 9, 49>>] :
        n \in {<<97, Dot>>, <<65, Dot>>, <<Bsl, 65, Dot>>, <<Bsl, 97, Dot>>}, t \in {10, 30}}

InitDedup ==
    /\ nbuf = MakeBuf(0) /\ noff = 0 /\ ncomp = MakeMap /\ nlog = <<>>
    /\ ust = [on |-> FALSE]
    /\ m = [on |-> FALSE] /\ wire = <<>> /\ perr = NoErr
    /\ dns = [on |-> FALSE] /\ ures = [on |-> FALSE] /\ pc = "idle"
    /\ rrst = [on |-> FALSE]
    /\ dd = [on |-> TRUE, open |-> TRUE, heap |-> <<>>, m |-> [nil |-> FALSE, tab |-> <<>>],
             log |-> <<>>]
    /\ cc = [on |-> FALSE] /\ rl = [on |-> FALSE]

\* The caller's view after Dedup(rrs, mm) returned r: the call is logged
\* with the records as they were handed in and as they came back
DedupReturns(recs, rrs, mm, r) ==
    dd' = [dd EXCEPT !.heap = r.heap,
                     !.m = IF mm.nil THEN @ ELSE [nil |-> FALSE, tab |-> r.tab],
                     !.open = ~mm.nil /\ Len(dd.log) + 1 < MaxDedupCalls,
                     !.log = Append(@, [in |-> recs, nilmap |-> mm.nil,
                                        handedback |-> ~mm.nil /\ Len(dd.log) > 0,
                                        out |-> [k \in 1 .. Len(r.out) |-> r.heap[r.out[k]]]])]

DedupCall(recs, mm) ==
    /\ dd.on /\ dd.open
    /\ Len(recs) <= (IF dd.log = <<>> THEN MaxDedupLen ELSE MaxReuseLen)
    /\ DedupReturns(recs, [k \in 1 .. Len(recs) |-> Len(dd.heap) + k], mm,
                    Dedup(dd.heap \o recs, [k \in 1 .. Len(recs) |-> Len(dd.heap) + k], mm))
    /\ UNCHANGED <<nbuf, noff, ncomp, nlog, ust, m, wire, perr, dns, ures, pc, rrst, cc, rl>>

NextDedup ==
    \E recs \in SeqsUpTo(DedupRecords, MaxDedupLen) :
        \/ DedupCall(recs, [nil |-> TRUE, tab |-> <<>>])
        \/ DedupCall(recs, dd.m)

SpecDedup == InitDedup /\ [][NextDedup]_vars

----------------------------------------------------------------------------
(* Concurrent calls: each call is a Msg.Pack or a Msg.Unpack on a Msg of   *)
(* its own, run by its own goroutine; one step of a call packs or unpacks  *)
(* the header or one section.  msg, off, err, compression and the receiver *)
(* are locals of the call; rr_mk is the package-level state the calls read *)

MaxCalls == 2

ConcMsgs ==
    {[NewMsg EXCEPT !.Id = 4660, !.Compress = TRUE, !.Question = <<Q(NameA)>>,
                    !.Answer = <<RRA(NameA)>>],
     [NewMsg EXCEPT !.Id = 4661, !.Compress = TRUE, !.Question = <<Q(NameBA)>>,
                    !.Answer = <<RRNS(NameA, NameBA)>>]}

Sections == <<"Question", "Answer", "Ns", "Extra">>

\* A call before its first step: at counts the steps made; 1 .. 4 is the
\* section to do next, 5 the return, 6 the end
NewCall(op, d, octets) ==
    [op |-> op, d |-> d, wire |-> octets, at |-> 0,
     ps |-> PSt(MakeBuf(0), 0, NilMap, "nil"),
     us |-> [dns |-> NewMsg, off |-> 0, err |-> "nil"],
     out |-> [err |-> "none"]]

CallSet ==
    {NewCall("pack", d, <<>>) : d \in ConcMsgs}
        \cup {NewCall("unpack", NewMsg, MsgPack(d).msg) : d \in ConcMsgs}

\* Every call packs with the compression table of the first call
FirstTable(calls, p) == calls[1].ps.comp

\* The compression table call p packs with: the one it made
OwnTable(calls, p) == calls[p].ps.comp

PackCallStep(calls, p, c) ==
    IF c.at = 0
    THEN [c EXCEPT !.at = 1,
                   !.ps = PackStruct(MsgHeader(c.d), MakeBuf(MsgLen(c.d) + 10), 0, MakeMap,
                                     c.d.Compress)]
    ELSE IF c.at <= 4
    THEN [c EXCEPT !.at = c.at + 1,
                   !.ps = PackSection(c.d[Sections[c.at]], 1,
                                      [c.ps EXCEPT !.comp = OwnTable(calls, p)],
                                      c.d.Compress, c.at # 1)]
    ELSE [c EXCEPT !.at = 6, !.out = MsgPackReturn(c.ps)]

\* The first step of an Unpack call, h being the header as unpacked
UnpackCallHeader(c, h) ==
    IF h.err # "nil"
    THEN [c EXCEPT !.at = 6, !.out = [dns |-> c.us.dns, off |-> h.off, err |-> h.err]]
    ELSE [c EXCEPT !.at = 1,
                   !.us = [dns |-> SetHeader(c.us.dns, h.any), off |-> h.off, err |-> "nil"]]

UnpackCallStep(c) ==
    IF c.at = 0 THEN UnpackCallHeader(c, UnpackStruct(New("Header"), FromSeq(c.wire), 0))
    ELSE IF c.at <= 4
    THEN [c EXCEPT !.at = c.at + 1,
                   !.us = UnpackSection(Sections[c.at], 1, FromSeq(c.wire), c.us)]
    ELSE [c EXCEPT !.at = 6, !.out = MsgUnpackCheck(c.us, FromSeq(c.wire))]

InitConc ==
    /\ nbuf = MakeBuf(0) /\ noff = 0 /\ ncomp = MakeMap /\ nlog = <<>>
    /\ ust = [on |-> FALSE]
    /\ m = [on |-> FALSE] /\ wire = <<>> /\ perr = NoErr
    /\ dns = [on |-> FALSE] /\ ures = [on |-> FALSE] /\ pc = "idle"
    /\ rrst = [on |-> FALSE]
    /\ dd = [on |-> FALSE]
    /\ rl = [on |-> FALSE]
    /\ \E cs \in [1 .. MaxCalls -> CallSet] : cc = [on |-> TRUE, calls |-> cs]

CallStep(p) ==
    /\ cc.on /\ cc.calls[p].at < 6
    /\ cc' = [cc EXCEPT !.calls[p] =
                  IF cc.calls[p].op = "pack" THEN PackCallStep(cc.calls, p, cc.calls[p])
                  ELSE UnpackCallStep(cc.calls[p])]
    /\ UNCHANGED <<nbuf, noff, ncomp, nlog, ust, m, wire, perr, dns, ures, pc, rrst, dd, rl>>

NextConc == \E p \in 1 .. MaxCalls : CallStep(p)

SpecConc == InitConc /\ [][NextConc]_vars

----------------------------------------------------------------------------
(* ResponseRatelimit (ratelimit.go): handlers send items on the channel    *)
(* serialize, the goroutine count() takes them one by one and updates the  *)
(* bucket array block, Block reads a bucket.  Time is counted in seconds.  *)

BUCKETSIZE == 10000
Window == 5

MaxRequests == 3
MaxTime == 7

\* hash/adler32 of the octets from the k-th on, a and b being the two sums
RECURSIVE Adler32From(_, _, _, _)
Adler32From(bytes, k, a, b) ==
    IF k > Len(bytes) THEN b * 65536 + a
    ELSE Adler32From(bytes, k + 1, (a + bytes[k]) % 65521,
                     (b + ((a + bytes[k]) % 65521)) % 65521)

Checksum(bytes) == Adler32From(bytes, 1, 1, 0)

\* The two type assertions on the address: offset is set from the IP of a
\* *net.UDPAddr or a *net.TCPAddr and keeps its value for any other net.Addr
AddrOffset(a, offset) ==
    IF a.net \in {"udp", "tcp"} THEN Checksum(a.IP) % BUCKETSIZE ELSE offset

\* Remote addresses: UDP, TCP and IP (neither UDP nor TCP) addresses
Addrs ==
    {[net |-> "udp", IP |-> IPv4(10, 0, 0, 1)], [net |-> "tcp", IP |-> IPv4(10, 0, 0, 1)],
     [net |-> "udp", IP |-> IPv4(10, 0, 0, 2)], [net |-> "ip", IP |-> IPv4(10, 0, 0, 1)]}

\* The body of count()'s loop for the item of address a: block afterwards
CountItem(block, offset, a, now) ==
    IF offset \notin DOMAIN block
    THEN (offset :> [source |-> a, stamp |-> now, rate |-> 0, count |-> 1]) @@ block
    ELSE IF now - block[offset].stamp < 1
    THEN [block EXCEPT ![offset] = [@ EXCEPT !.stamp = now, !.count = @ + 1,
                                             !.rate = block[offset].count + 1]]
    ELSE IF now - block[offset].stamp > Window
    THEN [block EXCEPT ![offset] = [@ EXCEPT !.stamp = now, !.rate = 0, !.count = 1]]
    ELSE [block EXCEPT ![offset] =
             [@ EXCEPT !.rate = (@ \div Pow2(now - block[offset].stamp))
                                    + block[offset].count,
                       !.stamp = now, !.count = 1]]

\* What Block returns when it reads the bucket at offset (LogOnly is nil)
BlockResult(block, offset) ==
    IF offset \notin DOMAIN block THEN 0
    ELSE IF block[offset].rate > 50 THEN -1
    ELSE 0

InitRatelimit ==
    /\ nbuf = MakeBuf(0) /\ noff = 0 /\ ncomp = MakeMap /\ nlog = <<>>
    /\ ust = [on |-> FALSE]
    /\ m = [on |-> FALSE] /\ wire = <<>> /\ perr = NoErr
    /\ dns = [on |-> FALSE] /\ ures = [on |-> FALSE] /\ pc = "idle"
    /\ rrst = [on |-> FALSE]
    /\ dd = [on |-> FALSE]
    /\ cc = [on |-> FALSE]
    /\ rl = [on |-> TRUE, block |-> <<>>, serialize |-> <<>>, offset |-> 0, now |-> 0,
             sent |-> 0, counted |-> <<>>, blocked |-> <<>>]

\* Count(a, q, r): the item is sent on the channel
RlCount(a) ==
    /\ rl.on /\ rl.sent < MaxRequests /\ Len(rl.serialize) < BUCKETSIZE
    /\ rl' = [rl EXCEPT !.serialize = Append(@, a), !.sent = @ + 1]
    /\ UNCHANGED <<nbuf, noff, ncomp, nlog, ust, m, wire, perr, dns, ures, pc, rrst, dd, cc>>

\* One iteration of count(): an item is received, offset is set from its
\* address and the bucket at offset is updated; counted remembers the
\* address of the item and the bucket written
RlCountLoop ==
    /\ rl.on /\ rl.serialize # <<>>
    /\ rl' = [rl EXCEPT !.serialize = Tail(@),
                        !.offset = AddrOffset(Head(rl.serialize), rl.offset),
                        !.block = CountItem(rl.block,
                                            AddrOffset(Head(rl.serialize), rl.offset),
                                            Head(rl.serialize), rl.now),
                        !.counted = <<[a |-> Head(rl.serialize),
                                       offset |-> AddrOffset(Head(rl.serialize),
                                                             rl.offset)]>>]
    /\ UNCHANGED <<nbuf, noff, ncomp, nlog, ust, m, wire, perr, dns, ures, pc, rrst, dd, cc>>

\* Block(a, q), called by a handler: blocked remembers the address, the
\* bucket read and the value returned
RlBlock(a) ==
    /\ rl.on
    /\ rl' = [rl EXCEPT !.blocked = <<[a |-> a, offset |-> AddrOffset(a, 0),
                                       res |-> BlockResult(rl.block, AddrOffset(a, 0))]>>]
    /\ UNCHANGED <<nbuf, noff, ncomp, nlog, ust, m, wire, perr, dns, ures, pc, rrst, dd, cc>>

\* d seconds pass
RlTick(d) ==
    /\ rl.on /\ rl.now + d <= MaxTime
    /\ rl' = [rl EXCEPT !.now = @ + d]
    /\ UNCHANGED <<nbuf, noff, ncomp, nlog, ust, m, wire, perr, dns, ures, pc, rrst, dd, cc>>

NextRatelimit ==
    \/ \E a \in Addrs : RlCount(a)
    \/ RlCountLoop
    \/ \E a \in Addrs : RlBlock(a)
    \/ \E d \in {1, Window + 1} : RlTick(d)

SpecRatelimit == InitRatelimit /\ [][NextRatelimit]_vars

----------------------------------------------------------------------------
(* What a valid message is and when two messages are the same *)

FullyQualified(s) == Len(s) > 0 /\ s[Len(s)] = Dot

\* s ends with the root label: its last octet is an unescaped dot
RootTerminated(s) == Len(s) \in Seps(s)

ValidName(s) ==
    /\ FullyQualified(s)
    /\ \A k \in 1 .. Len(RefLabels(s)) : Len(RefLabels(s)[k]) \in 1 .. 63

ValidRR(rr) ==
    /\ rr.Rrtype \in DOMAIN rr_mk
    /\ ValidName(rr.Name)
    /\ rr.kind = "RR_NS" => ValidName(rr.Ns)

ValidMsg(d) ==
    /\ \A k \in 1 .. Len(d.Question) : ValidName(d.Question[k].Name)
    /\ \A k \in 1 .. Len(d.Answer) : ValidRR(d.Answer[k])
    /\ \A k \in 1 .. Len(d.Ns) : ValidRR(d.Ns[k])
    /\ \A k \in 1 .. Len(d.Extra) : ValidRR(d.Extra[k])

\* The payload octets of a record written without compression
PayloadLen(rr) ==
    CASE rr.kind = "RR_A" -> 4
      [] rr.kind = "RR_NS" -> Len(RefWire(RefLabels(rr.Ns))) + 1
      [] rr.kind = "RR_RFC3597" -> Len(rr.Rdata) \div 2
      [] OTHER -> 0

\* Section got is section want, record for record, with RDLENGTH recomputed
SameSection(got, want) ==
    /\ Len(got) = Len(want)
    /\ \A k \in 1 .. Len(want) :
          /\ got[k].kind = want[k].kind
          /\ got[k] = [want[k] EXCEPT !.Rdlength = PayloadLen(want[k])]

SameMsg(got, want) ==
    /\ \A f \in {"Id", "Response", "Opcode", "Authoritative", "Truncated",
                 "RecursionDesired", "RecursionAvailable", "Zero", "AuthenticatedData",
                 "CheckingDisabled", "Rcode"} : got[f] = want[f]
    /\ got.Question = want.Question
    /\ SameSection(got.Answer, want.Answer)
    /\ SameSection(got.Ns, want.Ns)
    /\ SameSection(got.Extra, want.Extra)

\* What a fresh Msg holds, and the error, after unpacking the octets d packs to
Decoded(d) == MsgUnpack(NewMsg, FromSeq(MsgPack(d).msg))

\* A section without the RDLENGTHs, which say how the payloads were written
NoRdlength(sec) ==
    [k \in 1 .. Len(sec) |->
        IF "Rdlength" \in DOMAIN sec[k] THEN [sec[k] EXCEPT !.Rdlength = 0] ELSE sec[k]]

\* The logical message: header, sections in order, names and payloads
Logical(d) ==
    [d EXCEPT !.Answer = NoRdlength(d.Answer), !.Ns = NoRdlength(d.Ns),
              !.Extra = NoRdlength(d.Extra)]

Outcome(err, d) == <<err, Logical(d)>>

DecodedOutcome(r) == Outcome(r.err, r.dns)

----------------------------------------------------------------------------
(* The claims *)

\* C1: a valid Msg packed with Compress = false and unpacked again yields
\* no error and the same message field for field, each RDLENGTH being the
\* length of the record's payload.
C1_RoundTrip ==
    (pc.at = "unpacked" /\ pc.how = "none" /\ ~m.Compress /\ ValidMsg(m))
        => ures.err = "nil" /\ SameMsg(dns, m)

\* C2: the octets a valid Msg packs to with Compress = true unpack to the
\* same message, with the same outcome, as the octets it packs to with
\* Compress = false.
C2_SameDecode ==
    (pc.at = "unpacked" /\ pc.how = "none" /\ m.Compress /\ ValidMsg(m))
        => Outcome(ures.err, dns) = DecodedOutcome(Decoded([m EXCEPT !.Compress = FALSE]))

\* C3: of two names packed one after the other with one compression table,
\* the second with compression allowed, the second is written as its labels
\* outside the longest shared suffix followed by the two octets 0xC000 | p,
\* p < 16384 being where that suffix was first written, and the offset
\* returned is the one after the pointer.
C3_SecondNameIsPointer ==
    (/\ Len(nlog) = 2
     /\ nlog[1].err = "nil"
     /\ nlog[2].compress
     /\ FullyQualified(nlog[2].name)
     /\ SharedLabels(RefLabels(nlog[1].name), RefLabels(nlog[2].name)) >= 1
     /\ nlog[1].start
            + Len(RefWire(SubSeq(RefLabels(nlog[1].name), 1,
                      Len(RefLabels(nlog[1].name))
                          - SharedLabels(RefLabels(nlog[1].name), RefLabels(nlog[2].name)))))
            < maxCompressionOffset)
        => /\ nlog[2].err = "nil"
           /\ nlog[2].out =
                  RefWire(SubSeq(RefLabels(nlog[2].name), 1,
                      Len(RefLabels(nlog[2].name))
                          - SharedLabels(RefLabels(nlog[1].name), RefLabels(nlog[2].name))))
                  \o packUint16(49152
                      + nlog[1].start
                      + Len(RefWire(SubSeq(RefLabels(nlog[1].name), 1,
                            Len(RefLabels(nlog[1].name))
                                - SharedLabels(RefLabels(nlog[1].name),
                                               RefLabels(nlog[2].name))))))
           /\ nlog[2].end = nlog[2].start + Len(nlog[2].out)

\* C5: Msg.Unpack returns a result or an error on every octet string; no
\* field reader indexes outside the buffer or slices a reversed range.
C5_NoPanic == pc.at = "unpacked" => ures.err # "panic"

\* C6: when the payload UnpackRR parsed does not end where the record
\* header's RDLENGTH says, UnpackRR returns an error, never a nil error.
C6_LengthMismatchIsError ==
    (rrst.on /\ rrst.at = "unpacked" /\ rrst.declared # rrst.actual)
        => rrst.res.err # "nil"

\* C7: a header count one larger than the entries in the buffer makes
\* Msg.Unpack return ErrShortBuf, never success.
C7_ShortSection ==
    (pc.at = "unpacked" /\ pc.how = "inflate") => ures.err = "ErrShortBuf"

C9_NoPartialOutput ==
    /\ pc.at = "packfailed" => perr.isnil /\ wire = <<>>
    /\ (pc.at = "unpacked" /\ ures.err \notin {"nil", "panic"}) => dns = NewMsg

\* C10: Msg.Len is at least the number of octets Msg.Pack returns, with
\* Compress true or false.
C10_LenIsUpperBound == pc.at = "packed" => MsgLen(m) >= Len(wire)

\* C11: a record with an ascending type bitmap S, packed by PackRR and
\* unpacked by UnpackRR from the octets as packed, comes back as a record of
\* the same type whose type bitmap is exactly S
C11_BitmapRoundTrip ==
    (rrst.on /\ rrst.at = "unpacked" /\ rrst.rr.kind = "RR_NSEC"
        /\ rrst.declared = rrst.actual)
    => /\ rrst.res.err = "nil"
       /\ rrst.res.rr.kind = "RR_NSEC"
       /\ rrst.res.rr.TypeBitMap = rrst.rr.TypeBitMap

\* C12: a record of a type without constructor, packed with its RDLENGTH as
\* written by PackRR, is unpacked by UnpackRR without error into an
\* RR_RFC3597, and PackRR of that record at the same offset writes the same
\* octets again
C12_UnknownRoundTrip ==
    (rrst.on /\ rrst.at = "unpacked" /\ rrst.rr.kind = "RR_RFC3597" /\ ~rrst.registered
        /\ rrst.declared = rrst.actual)
    => /\ rrst.res.err = "nil"
       /\ rrst.res.rr.kind = "RR_RFC3597"
       /\ Bytes(PackRR(rrst.res.rr, MakeBuf(RRBufLen), rrst.off0, NilMap, FALSE).msg,
                rrst.off0, rrst.msg.len)
            = Bytes(rrst.msg, rrst.off0, rrst.msg.len)

\* C13: with MAGIC registered, a MAGIC record packed by PackRR at an offset
\* is unpacked by UnpackRR without error into a MAGIC record with the same
\* text representation (the header's name, type, class and ttl, and Code)
C13_MagicRoundTrip ==
    (rrst.on /\ rrst.at = "unpacked" /\ rrst.rr.kind = "MAGIC" /\ rrst.registered
        /\ rrst.declared = rrst.actual)
    => /\ rrst.res.err = "nil"
       /\ rrst.res.rr.kind = "MAGIC"
       /\ [rrst.res.rr EXCEPT !.Rdlength = 0] = [rrst.rr EXCEPT !.Rdlength = 0]

\* C14: an OPT record packed by PackRR is unpacked by UnpackRR without error
\* into an OPT record that holds every option of the list, unrecognised
\* codes included, each with its code and payload
C14_OptionsRetained ==
    (rrst.on /\ rrst.at = "unpacked" /\ rrst.rr.kind = "RR_OPT"
        /\ rrst.declared = rrst.actual)
    => /\ rrst.res.err = "nil"
       /\ rrst.res.rr.kind = "RR_OPT"
       /\ rrst.res.rr.Option = rrst.rr.Option

\* C15: PackDomainName returns no error for a root-terminated name only if
\* each of its labels is 1 to 63 octets long, and it does encode the name
\* with a 63-octet label when the buffer has room for it (in 65 octets when
\* nothing was packed before it)
C15_LabelLength ==
    \A k \in 1 .. Len(nlog) :
        /\ (RootTerminated(nlog[k].name) /\ nlog[k].name # <<Dot>> /\ nlog[k].err = "nil")
               => \A d \in Seps(nlog[k].name) : LabelLen(nlog[k].name, d) \in 1 .. 63
        /\ (nlog[k].name = Name63 /\ nlog[k].start + 65 <= BufLen)
               => nlog[k].err = "nil" /\ (k = 1 => nlog[k].end = nlog[k].start + 65)

\* C16: PackDomainName returns ErrFqdn for every name that does not end with
\* the root label
C16_NotFullyQualified ==
    \A k \in 1 .. Len(nlog) :
        ~RootTerminated(nlog[k].name) => nlog[k].err = "ErrFqdn"

\* Where the encoded name at o ends when no pointer is followed: behind its
\* zero octet, or behind the first 2-octet pointer met
RECURSIVE RefNameEnd(_, _)
RefNameEnd(msg, o) ==
    IF Rd(msg, o) = 0 THEN o + 1
    ELSE IF Rd(msg, o) >= 192 THEN o + 2
    ELSE RefNameEnd(msg, o + 1 + Rd(msg, o))

\* C17: when UnpackDomainName returns without error, the offset it returns
\* is the position behind the terminating zero octet if no pointer was
\* followed, and the position behind the first pointer otherwise
C17_ResumeOffset ==
    (ust.on /\ ust.st.done /\ ust.st.err = "nil")
    => ust.st.off1 = RefNameEnd(ust.msg, ust.start)

\* C20: when the first question of a message cannot be packed because its
\* name is not fully qualified, Msg.Pack returns that entry's error, ErrFqdn,
\* and no octets; and Msg.Unpack of octets cut short returns an error
C20_FirstErrorReturned ==
    /\ (pc.at = "packfailed" /\ Len(m.Question) >= 1
            /\ ~FullyQualified(m.Question[1].Name))
           => perr.err = "ErrFqdn" /\ perr.isnil
    /\ (pc.at = "unpacked" /\ pc.how = "truncate") => ures.err # "nil"

\* Two records are identical: equal once the owner name is lower-cased and
\* the TTL is left out
LowerCase(n) == [k \in 1 .. Len(n) |-> IF n[k] >= 65 /\ n[k] <= 90 THEN n[k] + 32 ELSE n[k]]

Identical(r1, r2) == LowerCase(r1.Name) = LowerCase(r2.Name) /\ r1.Rest = r2.Rest

NoTtl(recs) == [k \in 1 .. Len(recs) |-> [recs[k] EXCEPT !.Ttl = 0]]

\* The positions of the first occurrences in a slice
FirstOccurrences(recs) ==
    {i \in 1 .. Len(recs) : \A j \in 1 .. (i - 1) : ~Identical(recs[j], recs[i])}

\* C18: a Dedup call returns, TTLs aside, the first occurrence of each
\* distinct record of its input, in the order of the input
C18_FirstOccurrences ==
    \A c \in 1 .. (IF dd.on THEN Len(dd.log) ELSE 0) :
        /\ Len(dd.log[c].out) = Cardinality(FirstOccurrences(dd.log[c].in))
        /\ \A k \in 1 .. Len(dd.log[c].out) :
               \E i \in FirstOccurrences(dd.log[c].in) :
                   /\ Cardinality({j \in FirstOccurrences(dd.log[c].in) : j <= i}) = k
                   /\ NoTtl(dd.log[c].out)[k] = NoTtl(dd.log[c].in)[i]

\* C19: every record a Dedup call returns carries the lowest TTL of the
\* input records identical to it, with a nil map and with a map handed in
\* again after an earlier call
C19_LowestTtl ==
    \A c \in 1 .. (IF dd.on THEN Len(dd.log) ELSE 0) :
        \A k \in 1 .. Len(dd.log[c].out) :
            \A i \in 1 .. Len(dd.log[c].in) :
                Identical(dd.log[c].in[i], dd.log[c].out[k])
                    => dd.log[c].out[k].Ttl <= dd.log[c].in[i].Ttl

\* What UnpackStruct returns for the header of the record on the wire, and
\* for the typed record made from that header
HeaderResult == UnpackStruct(New("RR_Header"), rrst.msg, rrst.off0)

PayloadResult == UnpackStruct(mk(HeaderResult.any.Rrtype), rrst.msg, rrst.off0)

\* C21: when UnpackStruct returns an error for the typed record, UnpackRR
\* returns that error, never a record with a nil error
C21_PayloadErrorReturned ==
    (rrst.on /\ rrst.at = "unpacked" /\ HeaderResult.err = "nil"
        /\ PayloadResult.err \notin {"nil", "panic"})
    => rrst.res.err = PayloadResult.err

\* C22: PackRR into a buffer of any length either succeeds or returns an
\* error, and in both cases has written only at indices from the record's
\* start offset up to, not including, len(msg)
C22_WritesInsideBuffer ==
    (rrst.on /\ rrst.at = "tried")
    => /\ rrst.res.err # "panic"
       /\ \A i \in DOMAIN rrst.msg.data : i >= rrst.off0 /\ i < rrst.msg.len

\* C23: Msg.Pack of a valid message never fails with ErrShortBuf and never
\* indexes outside the Len()+10 octets it allocates
C23_PackFitsBuffer ==
    (pc.at \in {"packed", "packfailed"} /\ ValidMsg(m))
    => perr.err \notin {"ErrShortBuf", "panic"}

\* Where the pointer that ends the encoded name out stands, counted from the
\* name's first octet o; -1 when the name ends with a zero octet
RECURSIVE RefPointerPos(_, _)
RefPointerPos(out, o) ==
    IF o >= Len(out) \/ out[o + 1] = 0 THEN -1
    ELSE IF out[o + 1] >= 192 THEN o
    ELSE RefPointerPos(out, o + 1 + out[o + 1])

\* The table entry for key is sound: below the 14-bit ceiling, and the name
\* decoded from the buffer at that offset is the key
SoundEntry(key) ==
    /\ ncomp.tab[key] < maxCompressionOffset
    /\ UnpackDomainName(nbuf, ncomp.tab[key]).err = "nil"
    /\ UnpackDomainName(nbuf, ncomp.tab[key]).s = key

\* The pointer of the k-th packed name, if it has one, points backwards
PointsBack(k) ==
    RefPointerPos(nlog[k].out, 0) # -1
        => (nlog[k].out[RefPointerPos(nlog[k].out, 0) + 1] - 192) * 256
               + nlog[k].out[RefPointerPos(nlog[k].out, 0) + 2]
           < nlog[k].start + RefPointerPos(nlog[k].out, 0)

\* C24: after any sequence of PackDomainName calls on one buffer and one
\* table, every table entry is below 16384 and decodes to its key, an entry
\* once made is never changed, and every pointer emitted points backwards
C24_TableSound ==
    /\ [](\A key \in DOMAIN ncomp.tab : SoundEntry(key))
    /\ [][\A key \in DOMAIN ncomp.tab :
             key \in DOMAIN ncomp'.tab /\ ncomp'.tab[key] = ncomp.tab[key]]_vars
    /\ [](\A k \in 1 .. Len(nlog) : nlog[k].err = "nil" => PointsBack(k))

\* The type bitmap as the format defines it.  Codes(S) is the set of the
\* codes in the list S; the octet o of window w has bit 7-b set for the code
\* 256w + 8o + b
Codes(S) == {S[k] : k \in 1 .. Len(S)}

RECURSIVE RefOctet(_, _, _)
RefOctet(C, base, b) ==
    IF b > 7 THEN 0
    ELSE (IF base + b \in C THEN Pow2(7 - b) ELSE 0) + RefOctet(C, base, b + 1)

RefWindowLen(C, w) ==
    1 + (CHOOSE o \in 0 .. 31 :
             /\ \E c \in C : c \div 256 = w /\ (c % 256) \div 8 = o
             /\ \A c \in C : c \div 256 = w => (c % 256) \div 8 <= o)

RefWindow(C, w) ==
    <<w, RefWindowLen(C, w)>>
        \o [o \in 1 .. RefWindowLen(C, w) |-> RefOctet(C, 256 * w + 8 * (o - 1), 0)]

RECURSIVE RefBitmap(_, _)
RefBitmap(C, W) ==
    IF W = {} THEN <<>>
    ELSE RefWindow(C, CHOOSE w \in W : \A x \in W : w <= x)
             \o RefBitmap(C, W \ {CHOOSE w \in W : \A x \in W : w <= x})

\* Where the type bitmap of the NSEC record of the scenario starts on the wire
BitmapStart == rrst.hdrend + Len(RefWire(RefLabels(rrst.rr.NextDomain))) + 1

\* C25: the octets PackRR writes for a non-empty ascending type bitmap are
\* the non-empty windows in order, each as window number, length 1..32 up to
\* the highest octet with a set bit, and the octets with exactly the bits of
\* the set; and the decoder answers a window whose length octet is 0 or
\* above 32 with ErrFmt
C25_BitmapWindows ==
    /\ (rrst.on /\ rrst.at = "packed" /\ rrst.rr.kind = "RR_NSEC"
           /\ rrst.rr.TypeBitMap # <<>>)
       => Bytes(rrst.msg, BitmapStart, rrst.msg.len)
              = RefBitmap(Codes(rrst.rr.TypeBitMap),
                          {c \div 256 : c \in Codes(rrst.rr.TypeBitMap)})
    /\ (rrst.on /\ rrst.at = "unpacked" /\ rrst.rr.kind = "RR_NSEC"
           /\ rrst.declared = rrst.actual /\ BitmapStart + 1 < rrst.msg.len
           /\ Rd(rrst.msg, BitmapStart + 1) \notin 1 .. 32)
       => PayloadResult.err = "ErrFmt"

\* The service bitmap as the format defines it: the octets 0 .. max/8, the
\* octet o holding bit 7-b for the code 8o + b
RefServiceLen(C) == IF C = {} THEN 0 ELSE 1 + (CHOOSE c \in C : \A x \in C : x <= c) \div 8

RefService(C) == [o \in 1 .. RefServiceLen(C) |-> RefOctet(C, 8 * (o - 1), 0)]

\* C26: PackRR writes the service bitmap of a WKS record at the field's
\* offset, behind the address and the protocol, with every code of the set
\* in it, and returns the offset behind the bitmap; UnpackRR of the octets
\* gives the record with the same set back
C26_ServiceBitmap ==
    /\ (rrst.on /\ rrst.at = "packed" /\ rrst.rr.kind = "RR_WKS")
       => Bytes(rrst.msg, rrst.hdrend + 5, rrst.msg.len)
              = RefService(Codes(rrst.rr.BitMap))
    /\ (rrst.on /\ rrst.at = "unpacked" /\ rrst.rr.kind = "RR_WKS"
           /\ rrst.declared = rrst.actual)
       => /\ rrst.res.err = "nil"
          /\ rrst.res.rr.kind = "RR_WKS"
          /\ rrst.res.rr.BitMap = rrst.rr.BitMap

\* The flags word on the wire: octets 2 and 3 of the message
WireBits == wire[3] * 256 + wire[4]

\* C27: in the flags word Msg.Pack writes, the bits QR, AA, TC, RD, RA, Z,
\* AD and CD (15, 10, 9, 8, 7, 6, 5, 4) equal the boolean fields of the
\* header, whatever Opcode and Rcode are; and with Opcode and Rcode in 0..15
\* a successful Unpack gives every header field back
C27_FlagBits ==
    /\ pc.at = "packed"
       => \A k \in 1 .. 8 :
              (Bit(WireBits, <<15, 10, 9, 8, 7, 6, 5, 4>>[k]) = 1) = m[HdrFlags[k]]
    /\ (pc.at = "unpacked" /\ pc.how = "none" /\ ures.err = "nil"
           /\ m.Opcode \in 0 .. 15 /\ m.Rcode \in 0 .. 15)
       => \A f \in {"Id", "Opcode", "Rcode"} \cup {HdrFlags[k] : k \in 1 .. 8} :
              dns[f] = m[f]

\* C28: the text UnpackDomainName returns for a name on the wire is packed
\* by PackDomainName into the octets of that name, whatever octets its
\* labels hold
C28_EscapingLossless ==
    (ust.on /\ ust.st.done /\ ust.st.err = "nil" /\ Len(nlog) = 1)
    => /\ nlog[1].err = "nil"
       /\ nlog[1].out = Bytes(ust.msg, 0, ust.msg.len)

\* What a call returns when it runs alone
Alone(c) ==
    IF c.op = "pack" THEN MsgPack(c.d) ELSE MsgUnpack(NewMsg, FromSeq(c.wire))

\* C29: in every interleaving of the steps of concurrent Pack and Unpack
\* calls on Msgs of their own, a call that has returned has returned what it
\* returns when run alone, and a step of one call leaves the other calls'
\* variables as they are
C29_NoInterference ==
    /\ [](cc.on => \A p \in 1 .. Len(cc.calls) :
                       cc.calls[p].at = 6 => cc.calls[p].out = Alone(cc.calls[p]))
    /\ [][cc.on => \E p \in 1 .. Len(cc.calls) :
                       \A q \in 1 .. Len(cc.calls) : q # p => cc.calls'[q] = cc.calls[q]]_vars

C29_Witness ==
    /\ cc.on
    /\ \A p \in 1 .. Len(cc.calls) : cc.calls[p].at = 6 /\ cc.calls[p].out.err = "nil"
    /\ \E p, q \in 1 .. Len(cc.calls) :
           /\ cc.calls[p].op = "pack" /\ cc.calls[q].op = "pack"
           /\ cc.calls[p].d # cc.calls[q].d
    /\ \E p \in 1 .. Len(cc.calls) :
           cc.calls[p].op = "pack" /\ Len(cc.calls[p].out.msg) < MsgLen(cc.calls[p].d) + 10

\* C30: the bucket count() updates for an item of address a is the bucket
\* Block(a) reads, whatever was counted before; and the buckets change only
\* in a step of count(), the step that takes an item from the channel
C30_CountsAgainstAddress ==
    /\ [](rl.on => \A k \in 1 .. Len(rl.counted) :
                       rl.counted[k].offset = AddrOffset(rl.counted[k].a, 0))
    /\ [][(rl.on /\ rl.block' # rl.block)
              => Len(rl.serialize') < Len(rl.serialize)]_vars

====
